---- MODULE Spec2Model ----
(***************************************************************************)
(* Mount manager and WHEP session lifecycle of the WHEP server             *)
(* (internal/server/server.go).                                            *)
(*                                                                         *)
(* Every goroutine of the server is a process of the model: the two WHEP   *)
(* create handlers, closeSession invocations (DELETE, connection-state     *)
(* callback, setup timeout), and the timer callbacks that run              *)
(* teardownMountIfIdle.  One action is one critical section of the code    *)
(* (a region under s.mu and/or m.mu) or one call that runs between two     *)
(* critical sections.  A region that takes m.mu while holding s.mu is one  *)
(* action: no holder of a mount mutex ever waits for the server mutex.     *)
(* Time is left out: an armed timer may fire at any moment.                *)
(* The media path (internal/stream) follows the server's actions.          *)
(***************************************************************************)
EXTENDS Integers, FiniteSets, Sequences, Bags, TLC

\* ----- bounds of the model -----
MaxReq == 2        \* WHEP create requests served (one fresh uuid each)
MaxAbandoned == 3  \* create requests served when every negotiation is abandoned
MaxDelete == 1     \* DELETE requests sent by clients
MaxUnknown == 2    \* DELETE requests on ids that were never given out
MaxBgCalls == 4    \* calls of StartBackgroundDiscovery and StopBackgroundDiscovery
MaxBgTicks == 3    \* ticks of the background workers' tickers
MaxSinks == 2      \* sinks added to the broadcaster
MaxSamples == 6    \* access units the encoders produce
MaxUnits == 2      \* access units one EncodeI420 call returns
MaxDetach == 2     \* calls of one sink's detach closure
MaxClose == 1      \* calls of SampleBroadcaster.Close
MaxStop == 2       \* calls of one pipeline's Stop
MaxSrcStop == 2    \* calls of the source's Stop
MaxPipes == 2      \* pipelines started
MaxGaugeTicks == 3
MaxEncodeTicks == 3
MaxRestart == 2 \* ticks of the encoder loops when pipelines run side by side
MaxPolls == 3      \* discovery polls
MaxFound == 2      \* sources one discovery poll reports
MaxLookups == 2    \* create requests served while discovery polls
MaxSelect == 2     \* POST /ndi/select requests
MaxSelReq == 2     \* create requests served while sources are selected

\* ----- program constants -----
DefaultFPS == 30   \* ensureMount: fps when neither query nor config give one
QueueCap == 4      \* make(chan media.Sample, 4): sink queue and async writer queue

ReqIds == 1..(IF MaxReq > MaxAbandoned THEN MaxReq ELSE MaxAbandoned)

\* Strings the code takes apart are sequences of one-character strings.
SplashName == <<"S", "p", "l", "a", "s", "h">>
SplashURL == <<"n", "d", "i", ":", "/", "/", "S", "p", "l", "a", "s", "h">>
\* Keys a client may put in the path.
KeyNdiSplash == <<"n", "d", "i", "-", "s", "p", "l", "a", "s", "h">>
KeyNoSuch == <<"n", "o", "s", "u", "c", "h">>
KeySplashLower == <<"s", "p", "l", "a", "s", "h">>
KeySplashUpper == <<"S", "P", "L", "A", "S", "H">>
KeyCam == <<"n", "d", "i", "-", "c", "a", "m">>
SourceKeys == {KeyNdiSplash, KeyNoSuch}
\* The spellings of "splash".
SplashSpellings == {KeySplashLower, SplashName, KeySplashUpper}
\* Sources the NDI finder may report: two cameras' worth of real entries
\* and a "Remote Connection" helper entry.
RawSources ==
    { [Name |-> <<"C", "a", "m">>, URL |-> <<"n", "d", "i", ":", "/", "/", "C", "a", "m">>],
      [Name |-> SplashName, URL |-> SplashURL],
      [Name |-> <<"R", "e", "m", "o", "t", "e", " ", "C", "o", "n", "n", "e", "c", "t", "i", "o", "n">>,
       URL |-> <<"n", "d", "i", ":", "/", "/", "r", "c">>] }
RemoteConnection ==
    <<"r", "e", "m", "o", "t", "e", " ", "c", "o", "n", "n", "e", "c", "t", "i", "o", "n">>
\* Values of the w= and fps= query parameters after the handler parsed them
\* (0: absent or not a positive number).
Widths == {0, 640}
Rates == {0, 30}
Variants == Widths \X Rates

SinkIds == 1..MaxSinks
PipeIds == 1..MaxPipes
Codecs == {"vp8", "vp9", "av1"}
\* The sink whose track may stall: the first one added.
StalledSink == CHOOSE s \in SinkIds : \A t \in SinkIds : s <= t

NoKey == <<>>      \* session.mountKey == ""
NoSess == [mountKey |-> NoKey, det |-> 0, nil |-> TRUE]
NoSel == [Name |-> <<>>, URL |-> <<>>]   \* s.ndiName == "" and s.ndiURL == ""
IdleSel == [pc |-> "idle", bc |-> 0, snap |-> NoSel]

VARIABLES
    cfg,        \* s.cfg: [FPS, BitrateKbps]
    sessions,   \* s.sessions: id -> [mountKey, det, state]
    mounts,     \* s.mounts: composite key -> ndiMount object
    mount,      \* the ndiMount objects; object r is the one request r allocated
    sinks,      \* sinks of the broadcaster objects; broadcaster r is the one
                \* request r allocated (mount r's bc, or a shared broadcaster)
    shareBC,    \* s.shareBC: 0 (nil) or a broadcaster object
    sharePipe,  \* state of the shared pipeline started for broadcaster r
    req,        \* the create handlers: r -> [kind, pc, m, det, status]
    nreq,       \* number of create requests accepted so far
    pcState,    \* connection state of request r's peer connection
    cbReg,      \* OnConnectionStateChange handler registered on r's pc
    setupTimer, \* the 30 s setup-timeout goroutine of session r
    closers,    \* closeSession invocations in flight: bag of [id, pc, sess]
    tds,        \* teardownMountIfIdle invocations in flight: bag of [key, pc, m]
    ndelete,    \* DELETE requests sent so far
    detachRuns, \* how often the detach closure of session r has run
    pcCloses,   \* how often pc.Close() was called on r's peer connection
    ndiSel,     \* s.ndiName, s.ndiURL: the selected source
    reqSel,     \* the selection ensureSharedPipeline of request r snapshot
    pipeSel,    \* the selection the pipeline on broadcaster r was started with
    sel,        \* the POST /ndi/select handler: [pc, bc, snap]
    nselect     \* POST /ndi/select requests so far

VARIABLES
    bsinks,     \* b.sinks: the registered sinks of the broadcaster
    sch,        \* s.ch of every sink: queue of samples, capacity 4
    squit,      \* how often s.quit was closed (0: open; 2 or more: a panic)
    sworker,    \* the sink's worker goroutine: none, select, write, stuck, exit
    swritten,   \* samples the worker passed to the sink's track, in order
    sdetach,    \* calls of the sink's detach closure so far
    bcloses,    \* calls of b.Close so far
    pcodec,     \* codec of pipeline p
    ploop,      \* p's loop goroutine: none, failed, select, encode, enqueue, exited
    pstopped,   \* p.stopped
    pclosing,   \* a Stop call won the compare-and-swap and has yet to close p.quit
    pquit,      \* how often p.quit was closed
    penc,       \* p.enc: nil, open, closed
    pau,        \* access units of the current iteration not yet handed on
    pacc,       \* accepted so far in the current iteration
    pstops,     \* calls of p.Stop so far
    awch,       \* aw.ch of p's async writer: queue of samples, capacity 4
    awquit,     \* how often aw.quit was closed
    awworker,   \* the writer goroutine: none, select, write, exit
    awcur,      \* the sample the writer goroutine holds (0: none)
    srcKind,    \* the source: "none" (not made yet), "ndi" or "synthetic"
    srcStopped, \* NDISource.stopped / synthetic.stop
    srcQuit,    \* how often NDISource.quit was closed
    rxCloses,   \* how often the NDI receiver was closed
    srcStops,   \* calls of Source.Stop so far
    framesIn, framesEncoded, framesDropped, samplesSent,
    activePipelines, activeVP8, activeVP9, activeAV1,
    nsample,    \* access units produced so far; the n-th one is sample n
    nticks      \* ticks taken so far

VARIABLES
    cache,      \* cs.sources of the discovery cache: a list of SourceInfo
    poll,       \* the discovery goroutine: "wait" (select) or "store"
    srcs,       \* its local srcs: [isNil, list], what ListSources returned
    npolls      \* polls made so far

bcVars == <<bsinks, sch, squit, sworker, swritten, sdetach, bcloses>>
pipeVars == <<pcodec, ploop, pstopped, pclosing, pquit, penc, pau, pacc, pstops>>
awVars == <<awch, awquit, awworker, awcur>>
srcVars == <<srcKind, srcStopped, srcQuit, rxCloses, srcStops>>
frameVars == <<framesIn, framesEncoded, framesDropped, samplesSent>>
gaugeVars == <<activePipelines, activeVP8, activeVP9, activeAV1>>
metricVars == <<frameVars, gaugeVars>>
svars == <<bcVars, pipeVars, awVars, srcVars, metricVars, nsample, nticks>>
\* The variables of the broadcaster, the pipelines and the async writers:
\* every step of a sink worker, a writer or a loop changes one of them.
fvars == <<bcVars, pipeVars, awVars>>

selVars == <<ndiSel, reqSel, pipeSel, sel, nselect>>

vars == <<cfg, sessions, mounts, mount, sinks, shareBC, sharePipe, req, nreq,
          pcState, cbReg, setupTimer, closers, tds, ndelete,
          detachRuns, pcCloses, selVars>>

\* The background worker's bookkeeping (cacheState.started, cacheState.quit),
\* the channels made for it and the worker goroutines started.
VARIABLE bg
dvars == <<cache, poll, srcs, npolls, bg>>

\* The mutexes: lockpc[t] is the number of lock operations thread t has done,
\* holder[l] the thread inside lock l ("" when it is free), entered the
\* threads that have gone into the branch that takes their next lock.
VARIABLES lockpc, holder, entered
lvars == <<lockpc, holder, entered>>

\* One mount on an NDI source with its resolution supervisor: the mount, the
\* pipelines started for it, the supervisor goroutine, the size of the
\* source's last frame and the sinks of the mount's broadcaster.
VARIABLES rm, rpipe, rsup, rsrc, rsinks, nrestart
rvars == <<rm, rpipe, rsup, rsrc, rsinks, nrestart>>

\* An NDI source and the VP8 loop that reads it: the source's pixel format,
\* output size and last frame, and the loop's format, chosen once, with
\* what it did on its last tick.
VARIABLES nsrc, vloop
pvars == <<nsrc, vloop>>

xvars == <<dvars, lvars, rvars, pvars>>
allvars == <<vars, svars, xvars>>

\* ----- helpers -----
BagAdd(b, e) == b (+) SetToBag({e})
BagRem(b, e) == b (-) SetToBag({e})
MapRemove(f, k) == [x \in (DOMAIN f) \ {k} |-> f[x]]
MapPut(f, k, v) == [x \in (DOMAIN f) \cup {k} |-> IF x = k THEN v ELSE f[x]]
Inc2(n) == IF n < 2 THEN n + 1 ELSE n   \* saturating call counter

\* ensureMount: the composite key "%s|w%d|h%d|f%d|b%d" after defaulting.
\* The fields are kept apart by their tags, as the '|' and the letters do
\* in the formatted string.
CompKey(key, wantW, wantH, wantFPS, wantBR) ==
    LET f == IF wantFPS <= 0
             THEN (IF cfg.FPS <= 0 THEN DefaultFPS ELSE cfg.FPS)
             ELSE wantFPS
        b == IF wantBR <= 0 THEN cfg.BitrateKbps ELSE wantBR
    IN  IF wantW > 0 \/ wantH > 0 \/ f > 0 \/ b > 0
        THEN <<key, "w", wantW, "h", wantH, "f", f, "b", b>>
        ELSE <<key>>

\* ----- strings (server.go:711-740) -----
UpperLetters ==
    <<"A", "B", "C", "D", "E", "F", "G", "H", "I", "J", "K", "L", "M",
      "N", "O", "P", "Q", "R", "S", "T", "U", "V", "W", "X", "Y", "Z">>
LowerLetters ==
    <<"a", "b", "c", "d", "e", "f", "g", "h", "i", "j", "k", "l", "m",
      "n", "o", "p", "q", "r", "s", "t", "u", "v", "w", "x", "y", "z">>
Digits == {"0", "1", "2", "3", "4", "5", "6", "7", "8", "9"}

\* strings.ToLower on one character.
ToLowerChar(c) ==
    IF \E i \in 1..26 : UpperLetters[i] = c
    THEN LowerLetters[CHOOSE i \in 1..26 : UpperLetters[i] = c]
    ELSE c

\* strings.ToLower.
ToLower(str) == [i \in 1..Len(str) |-> ToLowerChar(str[i])]

\* strings.EqualFold on the characters of the model.
EqualFold(a, b) == ToLower(a) = ToLower(b)

\* slugKey 722-729: a-z and 0-9 are kept, anything else becomes '-'.
SafeChar(c) ==
    IF c \in Digits \/ \E i \in 1..26 : LowerLetters[i] = c THEN c ELSE "-"

\* strings.Trim(s, "-").
RECURSIVE TrimDash(_)
TrimDash(str) ==
    IF str = <<>> THEN str
    ELSE IF Head(str) = "-" THEN TrimDash(Tail(str))
    ELSE IF str[Len(str)] = "-" THEN TrimDash(SubSeq(str, 1, Len(str) - 1))
    ELSE str

\* strings.Contains(s, "--").
HasDoubleDash(str) == \E i \in 1..(Len(str) - 1) : str[i] = "-" /\ str[i + 1] = "-"

\* strings.ReplaceAll(s, "--", "-"): one pass from the left, no overlap.
RECURSIVE ReplaceDoubleDash(_)
ReplaceDoubleDash(str) ==
    IF Len(str) < 2 THEN str
    ELSE IF str[1] = "-" /\ str[2] = "-"
         THEN <<"-">> \o ReplaceDoubleDash(SubSeq(str, 3, Len(str)))
         ELSE <<str[1]>> \o ReplaceDoubleDash(Tail(str))

\* 733-735: for strings.Contains(s, "--") { s = strings.ReplaceAll(...) }.
RECURSIVE CollapseDashes(_)
CollapseDashes(str) ==
    IF HasDoubleDash(str) THEN CollapseDashes(ReplaceDoubleDash(str)) ELSE str

\* slugKey(name, url) 711-740.  Every source of the model has a name or a
\* url, so the uuid of line 717 is never drawn; "src" stands for an empty
\* result as in line 737.
SlugKey(name, url) ==
    LET base == IF url = <<>> THEN name ELSE url
        b == ToLower(base)
        repl == [i \in 1..Len(b) |-> SafeChar(b[i])]
        slug == CollapseDashes(TrimDash(repl))
    IN  IF slug = <<>> THEN <<"s", "r", "c">> ELSE slug

\* The key under which sourceIndex files the synthetic Splash entry (703).
SplashKey == SlugKey(SplashName, SplashURL)

\* sourceIndex 700-709 over the cached list: key -> SourceInfo; Splash goes
\* in first and a later entry with the same key replaces an earlier one.
SourceIndexOf(list) ==
    [k \in {SplashKey} \cup {SlugKey(list[i].Name, list[i].URL) : i \in 1..Len(list)} |->
        IF \E i \in 1..Len(list) : SlugKey(list[i].Name, list[i].URL) = k
        THEN LET j == CHOOSE j \in 1..Len(list) :
                          /\ SlugKey(list[j].Name, list[j].URL) = k
                          /\ \A i \in (j + 1)..Len(list) :
                                SlugKey(list[i].Name, list[i].URL) # k
             IN  list[j]
        ELSE [Name |-> SplashName, URL |-> SplashURL]]

\* s.sourceIndex() with ndi.GetCachedSources().
SourceIndex == SourceIndexOf(cache)

\* ensureMount 551: the source is the synthetic generator (src = nil).
IsSynthetic(si) == EqualFold(si.Name, SplashName) \/ EqualFold(si.URL, SplashURL)

FreshMount(ck, si) ==
    [alloc |-> TRUE, key |-> ck, name |-> si.Name, url |-> si.URL, bc |-> TRUE, stop |-> FALSE, cancel |-> FALSE,
     sessions |-> {}, idleTimer |-> "nil", noSessTimer |-> "nil",
     pipe |-> "none", torn |-> 0]

NoMount ==
    [alloc |-> FALSE, key |-> NoKey, name |-> <<>>, url |-> <<>>, bc |-> FALSE, stop |-> FALSE, cancel |-> FALSE,
     sessions |-> {}, idleTimer |-> "nil", noSessTimer |-> "nil",
     pipe |-> "none", torn |-> 0]

IdleReq == [kind |-> "none", pc |-> "idle", m |-> 0, det |-> 0, status |-> 0]

\* ----- resolution supervisor of a mount (server.go:548-663) -----

\* s.cfg.Width and s.cfg.Height (cmd/whep/main.go:95-96).
CfgWidth == 1280
CfgHeight == 720

\* Values of the w=, h=, fps= and bitrateKbps= query parameters.
WantWidths == {0, 640}
WantHeights == {0, 480}
WantRates == {0, 60}
WantBitrates == {0, 2000}

\* Sizes NDISource.Last() reports; <<0, 0>> before the first decoded frame.
Resolutions == {<<0, 0>>, <<1280, 720>>, <<1920, 1080>>}

NoResMount ==
    [made |-> FALSE, width |-> 0, height |-> 0, fps |-> 0, bitrateKbps |-> 0,
     bc |-> 0, stop |-> 0, cancel |-> FALSE, sessions |-> {}]

\* A supervisor for every mount on an NDI source.
SupervisedAlways(m) == TRUE

\* 604: the supervisor is started unless the mount fixed both a width and a
\* height.
Supervised(m) == m.width = 0 \/ m.height = 0

\* What Last() reports for a frame of native size w x h: the output size
\* when SetOutputSize was called (the mount fixed both sizes, 554-556;
\* part_008:84-103), the native size otherwise.
Reported(m, w, h) ==
    IF m.width > 0 /\ m.height > 0 /\ w > 0 /\ h > 0
    THEN [ok |-> TRUE, w |-> m.width, h |-> m.height, nw |-> w, nh |-> h]
    ELSE [ok |-> TRUE, w |-> w, h |-> h, nw |-> w, nh |-> h]

\* PipelineVP8.start 32-45 (pipeline_vpx.go): the size the source reports
\* within the first second replaces the configured one.
StartedSize(pcfg, src) ==
    IF src.ok /\ src.w > 0 /\ src.h > 0 THEN <<src.w, src.h>>
    ELSE <<pcfg.Width, pcfg.Height>>

\* A started pipeline: the configuration it was given and the size its
\* encoder was made with.
Started(pcfg, src) ==
    [Width |-> pcfg.Width, Height |-> pcfg.Height, FPS |-> pcfg.FPS,
     BitrateKbps |-> pcfg.BitrateKbps, Track |-> pcfg.Track,
     encW |-> StartedSize(pcfg, src)[1], encH |-> StartedSize(pcfg, src)[2],
     running |-> TRUE]

\* 516-663 for a key whose source is an NDI source: defaults for fps and
\* bitrate, the mount with its own broadcaster, the source (whose first
\* frame, of size first, may arrive before the pipeline's start has given up
\* waiting for it; <<0, 0>>: it does not), the pipeline with the mount's
\* sizes (the server's where the mount has none), the supervisor, and the
\* stop handles.  A pipeline that fails to start returns the error after
\* the mount was registered.
ResEnsureMount(wantW, wantH, wantFPS, wantBR, first, ok) ==
    /\ ~rm.made
    /\ LET f == IF wantFPS > 0 THEN wantFPS
                ELSE IF cfg.FPS > 0 THEN cfg.FPS ELSE DefaultFPS
           b == IF wantBR > 0 THEN wantBR ELSE cfg.BitrateKbps
           m == [made |-> TRUE, width |-> wantW, height |-> wantH, fps |-> f,
                 bitrateKbps |-> b, bc |-> 1, stop |-> 0, cancel |-> FALSE,
                 sessions |-> {}]
           src == IF first = <<0, 0>> THEN rsrc ELSE Reported(m, first[1], first[2])
           pcfg == [Width |-> IF m.width > 0 THEN m.width ELSE CfgWidth,
                    Height |-> IF m.height > 0 THEN m.height ELSE CfgHeight,
                    FPS |-> f,
                    BitrateKbps |-> IF m.bitrateKbps > 0 THEN m.bitrateKbps
                                    ELSE cfg.BitrateKbps,
                    Track |-> m.bc]
       IN  /\ rsrc' = src
           /\ IF ok
              THEN /\ rpipe' = <<Started(pcfg, src)>>
                   /\ rm' = [m EXCEPT !.stop = 1, !.cancel = TRUE]
                   /\ rsup' = [alive |-> Supervised(m), pc |-> "wait",
                               currentW |-> CfgWidth, currentH |-> CfgHeight,
                               stopper |-> 1, w0 |-> 0, h0 |-> 0]
              ELSE /\ rm' = m
                   /\ UNCHANGED <<rpipe, rsup>>
    /\ UNCHANGED <<rsinks, nrestart>>

\* handleWHEPNDI 451-485: the session's track is added to the mount's
\* broadcaster and the session to the mount.
ResAttach(s) ==
    /\ rm.made /\ rm.bc # 0 /\ s \notin rm.sessions
    /\ rsinks' = rsinks \cup {s}
    /\ rm' = [rm EXCEPT !.sessions = @ \cup {s}]
    /\ UNCHANGED <<rpipe, rsup, rsrc, nrestart>>

\* closeSession 1195-1212: detach and removeSession.
ResClose(s) ==
    /\ s \in rm.sessions
    /\ rsinks' = rsinks \ {s}
    /\ rm' = [rm EXCEPT !.sessions = @ \ {s}]
    /\ UNCHANGED <<rpipe, rsup, rsrc, nrestart>>

\* The receiver decodes a frame of some size (part_008: Last()).
ResSourceFrame(w, h) ==
    /\ rm.made
    /\ rsrc' = Reported(rm, w, h)
    /\ UNCHANGED <<rm, rpipe, rsup, rsinks, nrestart>>

\* A failed start that records the size it tried as the current one.
AfterFailedStartRecorded(sup, w0, h0) == [sup EXCEPT !.currentW = w0, !.currentH = h0]

\* 638-641: a start that fails is logged and the round ends; stopper,
\* currentW and currentH are as they were.
AfterFailedStart(sup, w0, h0) == sup

\* 611-640, one tick of the supervisor, which holds no lock: nothing
\* without a frame, with a size that is not positive or with the size in
\* currentW, currentH; otherwise stop the pipeline behind the supervisor's
\* own stopper and start one with the new size on m.bc; a start that fails
\* leaves everything else as it is until the next tick.
ResSupervisorTick(ok) ==
    /\ rsup.alive /\ rsup.pc = "wait"
    /\ IF ~rsrc.ok \/ rsrc.w <= 0 \/ rsrc.h <= 0
          \/ (rsrc.w = rsup.currentW /\ rsrc.h = rsup.currentH)
       THEN UNCHANGED <<rpipe, rsup, nrestart>>
       ELSE /\ nrestart' = nrestart + 1
            /\ LET stopped == [rpipe EXCEPT ![rsup.stopper].running = FALSE]
                   pcfg == [Width |-> rsrc.w, Height |-> rsrc.h,
                            FPS |-> rpipe[1].FPS,
                            BitrateKbps |-> cfg.BitrateKbps,
                            Track |-> rm.bc]
               IN  IF ok
                   THEN /\ rpipe' = Append(stopped, Started(pcfg, rsrc))
                        /\ rsup' = [rsup EXCEPT !.pc = "publish",
                                                !.stopper = Len(rpipe) + 1,
                                                !.w0 = rsrc.w, !.h0 = rsrc.h]
                   ELSE /\ rpipe' = stopped
                        /\ rsup' = AfterFailedStart(rsup, rsrc.w, rsrc.h)
    /\ UNCHANGED <<rm, rsrc, rsinks>>

\* 641-647: under m.mu the mount's stop handle becomes the new pipeline's,
\* then the new size becomes the current one.  The supervisor looks at its
\* context only in the select of its next round.
ResSupervisorPublish ==
    /\ rsup.pc = "publish"
    /\ rm' = [rm EXCEPT !.stop = rsup.stopper]
    /\ rsup' = [rsup EXCEPT !.pc = "wait", !.currentW = rsup.w0, !.currentH = rsup.h0]
    /\ UNCHANGED <<rpipe, rsrc, rsinks, nrestart>>

\* teardownMountIfIdle 667-697 for a mount without sessions, under m.mu:
\* the supervisor's context is cancelled, the pipeline behind m.stop is
\* stopped, the broadcaster is closed and the fields are cleared.
ResTeardown ==
    /\ rm.made /\ rm.bc # 0 /\ rm.sessions = {}
    /\ rsup' = [rsup EXCEPT !.alive = IF rm.cancel THEN FALSE ELSE @]
    /\ rpipe' = IF rm.stop # 0 THEN [rpipe EXCEPT ![rm.stop].running = FALSE] ELSE rpipe
    /\ rsinks' = {}
    /\ rm' = [rm EXCEPT !.bc = 0, !.stop = 0, !.cancel = FALSE]
    /\ UNCHANGED <<rsrc, nrestart>>

NextResolution ==
    \/ /\ \E wantW \in WantWidths, wantH \in WantHeights, wantFPS \in WantRates,
             wantBR \in WantBitrates, first \in Resolutions, ok \in BOOLEAN :
             ResEnsureMount(wantW, wantH, wantFPS, wantBR, first, ok)
       /\ UNCHANGED <<vars, svars, dvars, lvars, pvars>>
    \/ /\ \E s \in SinkIds : ResAttach(s)
       /\ UNCHANGED <<vars, svars, dvars, lvars, pvars>>
    \/ /\ \E s \in SinkIds : ResClose(s)
       /\ UNCHANGED <<vars, svars, dvars, lvars, pvars>>
    \/ /\ \E r \in Resolutions : ResSourceFrame(r[1], r[2])
       /\ UNCHANGED <<vars, svars, dvars, lvars, pvars>>
    \/ /\ nrestart < MaxRestart /\ \E ok \in BOOLEAN : ResSupervisorTick(ok)
       /\ UNCHANGED <<vars, svars, dvars, lvars, pvars>>
    \/ /\ ResSupervisorPublish
       /\ UNCHANGED <<vars, svars, dvars, lvars, pvars>>
    \/ /\ ResTeardown
       /\ UNCHANGED <<vars, svars, dvars, lvars, pvars>>

\* ----- pixel formats (part_008:68-236, pipeline_vpx.go:63-94) -----

MaxPixTicks == 3

\* The encoder's frame size in this part of the model (s.cfg.Width x
\* s.cfg.Height) and the frames the receiver delivers.
FourCCs == {"UYVY", "BGRA"}
FrameSizes == {<<1280, 720>>, <<1920, 1080>>}

NoFrame == [fmt |-> "", w |-> 0, h |-> 0, len |-> 0]

\* part_008:233-236: PixFmt() is "bgra" while the source has set none.
PixFmt(src) == IF src.pixfmt = "" THEN "bgra" ELSE src.pixfmt

\* NewNDISource, and SetOutputSize(CfgWidth, CfgHeight) when the caller
\* fixed a size (server.go:554-556).
PixNewSource(scaled) ==
    /\ ~nsrc.made
    /\ nsrc' = [nsrc EXCEPT !.made = TRUE, !.scaled = scaled]
    /\ UNCHANGED vloop

\* NDISource.loop 68-213, one captured frame: a UYVY frame is kept as it is
\* ("uyvy422", 2 bytes a pixel) and a BGRA frame as it is ("bgra", 4 bytes
\* a pixel), unless an output size is set that differs from the frame's:
\* then the frame is scaled and stored as BGRA of the output size.
PixCapture(fourcc, w, h) ==
    /\ nsrc.made
    /\ LET rescale == nsrc.scaled /\ (CfgWidth # w \/ CfgHeight # h)
           f == IF rescale
                THEN [fmt |-> "bgra", w |-> CfgWidth, h |-> CfgHeight,
                      len |-> CfgWidth * CfgHeight * 4]
                ELSE IF fourcc = "UYVY"
                THEN [fmt |-> "uyvy422", w |-> w, h |-> h, len |-> w * h * 2]
                ELSE [fmt |-> "bgra", w |-> w, h |-> h, len |-> w * h * 4]
       IN  nsrc' = [nsrc EXCEPT !.pixfmt = f.fmt, !.last = f]
    /\ UNCHANGED vloop

\* PipelineVP8.loop 70-76: the format is read once, before the first tick.
PixLoopStart ==
    /\ nsrc.made /\ ~vloop.started
    /\ vloop' = [vloop EXCEPT !.started = TRUE, !.pixfmt = PixFmt(nsrc)]
    /\ UNCHANGED nsrc

\* 85-94: the switch is on the format read at the start of the loop.
ConvFormat(latched, src) == latched

\* 82-94, one tick: frame := Source.Next() (nil before the first frame);
\* the tick is skipped when the frame is shorter than the format needs at
\* the encoder's size, otherwise the format's conversion runs on it.
PixTick ==
    /\ vloop.started
    /\ LET frame == nsrc.last
           fmt == ConvFormat(vloop.pixfmt, nsrc)
           need == IF fmt = "uyvy422" THEN CfgWidth * CfgHeight * 2
                   ELSE CfgWidth * CfgHeight * 4
       IN  vloop' = [vloop EXCEPT
                        !.frame = frame,
                        !.ticks = @ + 1,
                        !.conv = IF frame.len < need THEN "skip"
                                 ELSE IF fmt = "uyvy422" THEN "UYVYtoI420"
                                 ELSE "BGRAtoI420"]
    /\ UNCHANGED nsrc

NextPixFmt ==
    \/ /\ \E scaled \in BOOLEAN : PixNewSource(scaled)
       /\ UNCHANGED <<vars, svars, dvars, lvars, rvars>>
    \/ /\ \E fourcc \in FourCCs, sz \in FrameSizes : PixCapture(fourcc, sz[1], sz[2])
       /\ UNCHANGED <<vars, svars, dvars, lvars, rvars>>
    \/ /\ PixLoopStart
       /\ UNCHANGED <<vars, svars, dvars, lvars, rvars>>
    \/ /\ vloop.ticks < MaxPixTicks /\ PixTick
       /\ UNCHANGED <<vars, svars, dvars, lvars, rvars>>

\* ----- mutexes (server.go, broadcaster.go, internal/ndi) -----

\* s.mu of the server, m.mu of a mount, cs.mu of the discovery cache and
\* b.mu of a broadcaster.
Locks == {"s.mu", "m.mu", "cs.mu", "b.mu"}

Threads == {"handleWHEPNDI", "ensureMount", "closeSession", "teardownMountIfIdle",
            "discovery", "supervisor", "handleNDISelect"}

Lock(l) == [op |-> "lock", mu |-> l, opt |-> FALSE]
\* A lock taken inside a branch the thread may not enter.
LockIf(l) == [op |-> "lock", mu |-> l, opt |-> TRUE]
Unlock(l) == [op |-> "unlock", mu |-> l, opt |-> FALSE]
\* A point where the function may return.
MayReturn == [op |-> "return", mu |-> "", opt |-> TRUE]

\* The lock operations of each thread, in the order of its code.
\*  handleWHEPNDI 480-485: s.mu, and mm.addSession(id) (104-117) inside it
\*    when the registry holds the mount.
\*  ensureMount 517-546: s.mu, and s.sourceIndex() -> ndi.GetCachedSources()
\*    (part_004:305-311, cs.mu.RLock) inside it unless the mount is reused.
\*  closeSession 1186-1231: s.mu; sess.detach() (broadcaster.go:50-55);
\*    s.mu with m.removeSession (121-127) inside it; s.mu with
\*    s.shareBC.Close() (broadcaster.go:75-81) inside it.
\*  teardownMountIfIdle 667-697: s.mu; m.refCount() (97-101); m.mu with
\*    m.bc.Close() inside it; s.mu.
\*  discovery part_004:281-286: cs.mu around the store.
\*  supervisor 644-646: m.mu around the store of m.stop.
\*    (The shared supervisor, 853-855, takes s.mu alone in the same way
\*    as the first lines of handleNDISelect.)
\*  handleNDISelect 1042-1046: s.mu around the store of the selection, then
\*    restartSharedPipeline 871-890 and 978-980: s.mu, return when there is
\*    no shared broadcaster or the start failed, s.mu.
\*  The 30 s setup timer (311-321) takes s.mu alone and then calls
\*  closeSession.

\* teardownMountIfIdle with the registry entry deleted inside m.mu.
TeardownLocksNested ==
    <<Lock("s.mu"), Unlock("s.mu"), MayReturn,
      Lock("m.mu"), Unlock("m.mu"), MayReturn,
      Lock("m.mu"), LockIf("b.mu"), Unlock("b.mu"),
      Lock("s.mu"), Unlock("s.mu"), Unlock("m.mu")>>

\* teardownMountIfIdle 667-697.
TeardownLocks ==
    <<Lock("s.mu"), Unlock("s.mu"), MayReturn,
      Lock("m.mu"), Unlock("m.mu"), MayReturn,
      Lock("m.mu"), LockIf("b.mu"), Unlock("b.mu"), Unlock("m.mu"),
      Lock("s.mu"), Unlock("s.mu")>>

LockProgram ==
    [t \in Threads |->
        CASE t = "handleWHEPNDI" ->
                <<Lock("s.mu"), LockIf("m.mu"), Unlock("m.mu"), Unlock("s.mu")>>
          [] t = "ensureMount" ->
                <<Lock("s.mu"), LockIf("cs.mu"), Unlock("cs.mu"), Unlock("s.mu")>>
          [] t = "closeSession" ->
                <<Lock("s.mu"), Unlock("s.mu"),
                  LockIf("b.mu"), Unlock("b.mu"),
                  Lock("s.mu"), LockIf("m.mu"), Unlock("m.mu"), Unlock("s.mu"),
                  Lock("s.mu"), LockIf("b.mu"), Unlock("b.mu"), Unlock("s.mu")>>
          [] t = "teardownMountIfIdle" -> TeardownLocks
          [] t = "supervisor" ->
                <<Lock("m.mu"), Unlock("m.mu")>>
          [] t = "handleNDISelect" ->
                <<Lock("s.mu"), Unlock("s.mu"),
                  Lock("s.mu"), Unlock("s.mu"), MayReturn,
                  Lock("s.mu"), Unlock("s.mu")>>
          [] OTHER ->
                <<Lock("cs.mu"), Unlock("cs.mu")>>]

NextOp(t) == LockProgram[t][lockpc[t] + 1]

\* The thread's position after n operations; the function is called again
\* once it has returned.
After(t, n) == IF n >= Len(LockProgram[t]) THEN 0 ELSE n

\* Thread t is at a Lock call: its next operation is a lock that is not in
\* a branch, or the thread has gone into the branch.
AtLock(t) == NextOp(t).op = "lock" /\ (~NextOp(t).opt \/ t \in entered)

\* The branch that holds the lock is taken (m.bc != nil, the registry holds
\* the mount, s.shareBC != nil, ...): the thread arrives at the Lock call.
EnterBranch(t) ==
    /\ NextOp(t).op = "lock" /\ NextOp(t).opt /\ t \notin entered
    /\ entered' = entered \cup {t}
    /\ UNCHANGED <<lockpc, holder>>

\* sync.Mutex.Lock: the thread waits until the mutex is free.
Acquire(t) ==
    /\ AtLock(t)
    /\ holder[NextOp(t).mu] = ""
    /\ holder' = [holder EXCEPT ![NextOp(t).mu] = t]
    /\ lockpc' = [lockpc EXCEPT ![t] = After(t, @ + 1)]
    /\ entered' = entered \ {t}

\* sync.Mutex.Unlock.
Release(t) ==
    /\ NextOp(t).op = "unlock"
    /\ holder' = [holder EXCEPT ![NextOp(t).mu] = ""]
    /\ lockpc' = [lockpc EXCEPT ![t] = After(t, @ + 1)]
    /\ UNCHANGED entered

\* The branch that holds the lock is not taken, or the function goes on
\* past a point where it could return.
PassBy(t) ==
    /\ NextOp(t).opt /\ t \notin entered
    /\ lockpc' = [lockpc EXCEPT ![t] = After(t, IF NextOp(t).op = "lock" THEN @ + 2 ELSE @ + 1)]
    /\ UNCHANGED <<holder, entered>>

\* teardownMountIfIdle 671-676: no mount under the key, or sessions left.
ReturnEarly(t) ==
    /\ NextOp(t).op = "return"
    /\ lockpc' = [lockpc EXCEPT ![t] = 0]
    /\ UNCHANGED <<holder, entered>>

NextLocks ==
    \/ /\ \E t \in Threads : EnterBranch(t)
       /\ UNCHANGED <<vars, svars, dvars, rvars, pvars>>
    \/ /\ \E t \in Threads : Acquire(t)
       /\ UNCHANGED <<vars, svars, dvars, rvars, pvars>>
    \/ /\ \E t \in Threads : Release(t)
       /\ UNCHANGED <<vars, svars, dvars, rvars, pvars>>
    \/ /\ \E t \in Threads : PassBy(t)
       /\ UNCHANGED <<vars, svars, dvars, rvars, pvars>>
    \/ /\ \E t \in Threads : ReturnEarly(t)
       /\ UNCHANGED <<vars, svars, dvars, rvars, pvars>>

Init ==
    /\ cfg = [FPS |-> 0, BitrateKbps |-> 0]
    /\ sessions = <<>>
    /\ mounts = <<>>
    /\ mount = [r \in ReqIds |-> NoMount]
    /\ sinks = [r \in ReqIds |-> {}]
    /\ shareBC = 0
    /\ sharePipe = [r \in ReqIds |-> "none"]
    /\ req = [r \in ReqIds |-> IdleReq]
    /\ nreq = 0
    /\ pcState = [r \in ReqIds |-> "none"]
    /\ cbReg = [r \in ReqIds |-> FALSE]
    /\ setupTimer = [r \in ReqIds |-> "none"]
    /\ closers = EmptyBag
    /\ tds = EmptyBag
    /\ ndelete = 0
    /\ detachRuns = [r \in ReqIds |-> 0]
    /\ pcCloses = [r \in ReqIds |-> 0]
    /\ ndiSel = NoSel
    /\ reqSel = [r \in ReqIds |-> NoSel]
    /\ pipeSel = [r \in ReqIds |-> NoSel]
    /\ sel = IdleSel
    /\ nselect = 0
    \* internal/stream: no sink, no pipeline, counters at zero
    /\ bsinks = {}
    /\ sch = [s \in SinkIds |-> <<>>]
    /\ squit = [s \in SinkIds |-> 0]
    /\ sworker = [s \in SinkIds |-> "none"]
    /\ swritten = [s \in SinkIds |-> <<>>]
    /\ sdetach = [s \in SinkIds |-> 0]
    /\ bcloses = 0
    /\ pcodec = [p \in PipeIds |-> "none"]
    /\ ploop = [p \in PipeIds |-> "none"]
    /\ pstopped = [p \in PipeIds |-> 0]
    /\ pclosing = [p \in PipeIds |-> FALSE]
    /\ pquit = [p \in PipeIds |-> 0]
    /\ penc = [p \in PipeIds |-> "nil"]
    /\ pau = [p \in PipeIds |-> <<>>]
    /\ pacc = [p \in PipeIds |-> 0]
    /\ pstops = [p \in PipeIds |-> 0]
    /\ awch = [p \in PipeIds |-> <<>>]
    /\ awquit = [p \in PipeIds |-> 0]
    /\ awworker = [p \in PipeIds |-> "none"]
    /\ awcur = [p \in PipeIds |-> 0]
    /\ srcKind = "none"
    /\ srcStopped = 0
    /\ srcQuit = 0
    /\ rxCloses = 0
    /\ srcStops = 0
    /\ framesIn = 0 /\ framesEncoded = 0 /\ framesDropped = 0 /\ samplesSent = 0
    /\ activePipelines = 0 /\ activeVP8 = 0 /\ activeVP9 = 0 /\ activeAV1 = 0
    /\ nsample = 0
    /\ nticks = 0
    \* internal/ndi: nothing discovered yet
    /\ cache = <<>>
    /\ poll = "wait"
    /\ srcs = [isNil |-> TRUE, list |-> <<>>]
    /\ npolls = 0
    /\ bg = [started |-> FALSE, quit |-> 0, closes |-> <<>>, workers |-> <<>>,
             calls |-> 0, ticks |-> 0]
    /\ lockpc = [t \in Threads |-> 0]
    /\ rm = NoResMount
    /\ rpipe = <<>>
    /\ rsup = [alive |-> FALSE, pc |-> "wait", currentW |-> 0, currentH |-> 0,
               stopper |-> 0, w0 |-> 0, h0 |-> 0]
    /\ rsrc = [ok |-> FALSE, w |-> 0, h |-> 0, nw |-> 0, nh |-> 0]
    /\ rsinks = {}
    /\ nrestart = 0
    /\ nsrc = [made |-> FALSE, scaled |-> FALSE, pixfmt |-> "", last |-> NoFrame]
    /\ vloop = [started |-> FALSE, pixfmt |-> "", frame |-> NoFrame, conv |-> "none",
                ticks |-> 0]
    /\ holder = [l \in Locks |-> ""]
    /\ entered = {}

\* ----- ndiMount methods (server.go:97-128) -----

\* m.refCount()
RefCount(m) == Cardinality(mount[m].sessions)

\* addSession without lines 109-112: the idle timer is left as it is.
AddSessionKeepIdle(mrec, id) ==
    [mrec EXCEPT !.sessions = @ \cup {id},
                 !.noSessTimer = "nil"]

\* m.addSession(id): insert, then stop and clear both timers.  Stop() keeps a
\* callback that already started from nothing: only an armed timer is undone.
AddSession(mrec, id) ==
    [mrec EXCEPT !.sessions = @ \cup {id},
                 !.idleTimer = "nil",
                 !.noSessTimer = "nil"]

\* m.removeSession(id, onIdle): delete, and arm the idle timer when the set
\* is left empty and no idle timer is recorded.
RemoveSession(mrec, id) ==
    LET left == mrec.sessions \ {id}
    IN  [mrec EXCEPT !.sessions = left,
                     !.idleTimer = IF left = {} /\ @ = "nil" THEN "armed" ELSE @]

\* ensureMount without the len(m.sessions) == 0 test of line 658.
ArmNoSessAlways(mrec) ==
    IF mrec.noSessTimer = "nil" THEN "armed" ELSE mrec.noSessTimer

\* ensureMount 658-661: the 10 s no-session timer is armed when the mount has
\* no session and no such timer yet.
ArmNoSess(mrec) ==
    IF mrec.sessions = {} /\ mrec.noSessTimer = "nil" THEN "armed" ELSE mrec.noSessTimer

\* ----- POST /whep/ndi/{key} (server.go:333-513) -----

\* A handler that looks at the offer only after ensureMount registered a
\* mount for the request.
HandlerEmptyOfferLate(kind) ==
    /\ LET r == nreq + 1 IN
       /\ nreq' = r
       /\ req' = [req EXCEPT ![r] = [kind |-> kind, pc |-> "done",
                                     m |-> 0, det |-> 0, status |-> 400]]
       /\ mount' = [mount EXCEPT ![r] = FreshMount(<<KeyNdiSplash>>, [Name |-> SplashName, URL |-> SplashURL])]
       /\ mounts' = MapPut(mounts, <<KeyNdiSplash>>, r)
    /\ UNCHANGED <<cfg, selVars, sessions, sinks, shareBC, sharePipe, pcState,
                   cbReg, setupTimer, closers, tds, ndelete, detachRuns, pcCloses>>

\* 199-203 and 376-380: io.ReadAll(r.Body) fails or returns no byte: 400
\* "empty offer", before the handler has made or looked up anything.
HandlerEmptyOffer(kind) ==
    /\ LET r == nreq + 1 IN
       /\ nreq' = r
       /\ req' = [req EXCEPT ![r] = [kind |-> kind, pc |-> "done",
                                     m |-> 0, det |-> 0, status |-> 400]]
    /\ UNCHANGED <<cfg, selVars, sessions, mounts, mount, sinks, shareBC, sharePipe, pcState,
                   cbReg, setupTimer, closers, tds, ndelete, detachRuns, pcCloses>>

\* ensureMount, first critical section (516-546): reuse the registered mount
\* whose bc is set, refuse an unknown source, or register a fresh mount.
EnsureMountLookup(key, wantW, wantFPS) ==
    /\ LET r == nreq + 1
           ck == CompKey(key, wantW, 0, wantFPS, 0)
       IN  /\ nreq' = r
           /\ IF ck \in DOMAIN mounts /\ mount[mounts[ck]].bc
              THEN /\ req' = [req EXCEPT ![r] = [kind |-> "ndi", pc |-> "attach",
                                                 m |-> mounts[ck], det |-> 0, status |-> 0]]
                   /\ UNCHANGED <<mounts, mount>>
              ELSE IF key \notin DOMAIN SourceIndex
              THEN /\ req' = [req EXCEPT ![r] = [kind |-> "ndi", pc |-> "done",
                                                 m |-> 0, det |-> 0, status |-> 404]]
                   /\ UNCHANGED <<mounts, mount>>
              ELSE /\ mount' = [mount EXCEPT ![r] = FreshMount(ck, SourceIndex[key])]
                   /\ mounts' = MapPut(mounts, ck, r)
                   /\ req' = [req EXCEPT ![r] = [kind |-> "ndi", pc |-> "start",
                                                 m |-> r, det |-> 0, status |-> 0]]
    /\ UNCHANGED <<cfg, selVars, sessions, sinks, shareBC, sharePipe, pcState, cbReg,
                   setupTimer, closers, tds, ndelete, detachRuns, pcCloses>>

\* ensureMount, pipeline start (584-598): the encoder may refuse to start;
\* the error return leaves the registered mount as it is.
EnsureMountStart(r) ==
    /\ req[r].kind = "ndi" /\ req[r].pc = "start"
    /\ \/ /\ mount' = [mount EXCEPT ![req[r].m].pipe = "running"]
          /\ req' = [req EXCEPT ![r].pc = "publish"]
       \/ /\ req' = [req EXCEPT ![r] = [@ EXCEPT !.pc = "done", !.m = 0, !.status = 404]]
          /\ UNCHANGED mount
    /\ UNCHANGED <<cfg, selVars, sessions, mounts, sinks, shareBC, sharePipe, nreq, pcState,
                   cbReg, setupTimer, closers, tds, ndelete, detachRuns, pcCloses>>

\* ensureMount, last critical section (653-663): record the stop handles and
\* arm the 10 s no-session timer.
EnsureMountPublish(r) ==
    /\ req[r].kind = "ndi" /\ req[r].pc = "publish"
    /\ LET m == req[r].m IN
       mount' = [mount EXCEPT ![m] =
                    [@ EXCEPT !.stop = TRUE, !.cancel = TRUE,
                              !.noSessTimer = ArmNoSess(mount[m])]]
    /\ req' = [req EXCEPT ![r].pc = "attach"]
    /\ UNCHANGED <<cfg, selVars, sessions, mounts, sinks, shareBC, sharePipe, nreq, pcState,
                   cbReg, setupTimer, closers, tds, ndelete, detachRuns, pcCloses>>

\* 413-447: building the peer connection or the track fails: 500, nothing
\* was attached yet.
HandlerPCFail(r) ==
    /\ req[r].kind = "ndi" /\ req[r].pc = "attach"
    /\ req' = [req EXCEPT ![r] = [@ EXCEPT !.pc = "done", !.m = 0, !.status = 500]]
    /\ UNCHANGED <<cfg, selVars, sessions, mounts, mount, sinks, shareBC, sharePipe, nreq,
                   pcState, cbReg, setupTimer, closers, tds, ndelete,
                   detachRuns, pcCloses>>

\* 419-457: peer connection and track built, track added to the mount's
\* broadcaster when m.bc is set (detach is a no-op closure otherwise).
HandlerAttach(r) ==
    /\ req[r].kind = "ndi" /\ req[r].pc = "attach"
    /\ LET m == req[r].m IN
       IF mount[m].bc
       THEN /\ sinks' = [sinks EXCEPT ![m] = @ \cup {r}]
            /\ req' = [req EXCEPT ![r] = [@ EXCEPT !.pc = "sdp", !.det = m]]
       ELSE /\ req' = [req EXCEPT ![r] = [@ EXCEPT !.pc = "sdp", !.det = 0]]
            /\ UNCHANGED sinks
    /\ pcState' = [pcState EXCEPT ![r] = "new"]
    /\ UNCHANGED <<cfg, selVars, sessions, mounts, mount, shareBC, sharePipe, nreq, cbReg,
                   setupTimer, closers, tds, ndelete, detachRuns, pcCloses>>

\* 459-475 (and 265-282 of POST /whep): SetRemoteDescription, CreateAnswer or
\* SetLocalDescription fails: pc.Close() and the HTTP error, nothing else.
HandlerSDPFail(r) ==
    /\ req[r].pc = "sdp"
    /\ pcState' = [pcState EXCEPT ![r] = "closed"]
    /\ pcCloses' = [pcCloses EXCEPT ![r] = Inc2(@)]
    /\ \E st \in {400, 500} :  \* 400: SetRemoteDescription; 500: the other two
          req' = [req EXCEPT ![r] = [@ EXCEPT !.pc = "done", !.m = 0, !.status = st]]
    /\ UNCHANGED <<cfg, selVars, sessions, mounts, mount, sinks, shareBC, sharePipe, nreq,
                   cbReg, setupTimer, closers, tds, ndelete, detachRuns>>

\* 476-513: the answer is ready; register the session, add it to the mount
\* that the registry holds under m.key, register the connection-state handler
\* and answer 201.
HandlerRegister(r) ==
    /\ req[r].kind = "ndi" /\ req[r].pc = "sdp"
    /\ LET ck == mount[req[r].m].key IN
       /\ sessions' = MapPut(sessions, r, [mountKey |-> ck, det |-> req[r].det, state |-> ""])
       /\ IF ck \in DOMAIN mounts
          THEN mount' = [mount EXCEPT ![mounts[ck]] = AddSession(@, r)]
          ELSE UNCHANGED mount
    /\ cbReg' = [cbReg EXCEPT ![r] = TRUE]
    /\ req' = [req EXCEPT ![r] = [@ EXCEPT !.pc = "done", !.m = 0, !.det = 0, !.status = 201]]
    /\ UNCHANGED <<cfg, selVars, mounts, sinks, shareBC, sharePipe, nreq, pcState,
                   setupTimer, closers, tds, ndelete, detachRuns, pcCloses>>

\* ----- timers of a mount -----

\* time.AfterFunc(mountIdleTTL, onIdle) of removeSession fires (125, 1210).
FireIdleTimer(m) ==
    /\ mount[m].idleTimer = "armed"
    /\ mount' = [mount EXCEPT ![m].idleTimer = "fired"]
    /\ tds' = BagAdd(tds, [key |-> mount[m].key, pc |-> "lookup", m |-> 0])
    /\ UNCHANGED <<cfg, selVars, sessions, mounts, sinks, shareBC, sharePipe, req, nreq,
                   pcState, cbReg, setupTimer, closers, ndelete, detachRuns, pcCloses>>

\* time.AfterFunc(10*time.Second, ...) of ensureMount fires (660).
FireNoSessTimer(m) ==
    /\ mount[m].noSessTimer = "armed"
    /\ mount' = [mount EXCEPT ![m].noSessTimer = "fired"]
    /\ tds' = BagAdd(tds, [key |-> mount[m].key, pc |-> "lookup", m |-> 0])
    /\ UNCHANGED <<cfg, selVars, sessions, mounts, sinks, shareBC, sharePipe, req, nreq,
                   pcState, cbReg, setupTimer, closers, ndelete, detachRuns, pcCloses>>

\* ----- teardownMountIfIdle (server.go:667-697) -----

\* 668-673: look the key up under s.mu; return when there is no entry.
TeardownLookup(t) ==
    /\ BagIn(t, tds) /\ t.pc = "lookup"
    /\ tds' = IF t.key \in DOMAIN mounts
              THEN BagAdd(BagRem(tds, t), [t EXCEPT !.pc = "refcount", !.m = mounts[t.key]])
              ELSE BagRem(tds, t)
    /\ UNCHANGED <<cfg, selVars, sessions, mounts, mount, sinks, shareBC, sharePipe, req, nreq,
                   pcState, cbReg, setupTimer, closers, ndelete, detachRuns, pcCloses>>

\* 674-676: m.refCount() > 0 returns; the mount mutex is released again.
TeardownRefCount(t) ==
    /\ BagIn(t, tds) /\ t.pc = "refcount"
    /\ tds' = IF RefCount(t.m) > 0
              THEN BagRem(tds, t)
              ELSE BagAdd(BagRem(tds, t), [t EXCEPT !.pc = "teardown"])
    /\ UNCHANGED <<cfg, selVars, sessions, mounts, mount, sinks, shareBC, sharePipe, req, nreq,
                   pcState, cbReg, setupTimer, closers, ndelete, detachRuns, pcCloses>>

\* 677-691 under m.mu: cancel the supervisor, stop the pipeline through the
\* recorded handle, close the broadcaster, clear the fields.
TeardownRelease(t) ==
    /\ BagIn(t, tds) /\ t.pc = "teardown"
    /\ mount' = [mount EXCEPT ![t.m] =
                    [@ EXCEPT !.pipe = IF mount[t.m].stop /\ @ = "running" THEN "stopped" ELSE @,
                              !.bc = FALSE, !.stop = FALSE, !.cancel = FALSE,
                              !.torn = Inc2(@)]]
    /\ sinks' = IF mount[t.m].bc THEN [sinks EXCEPT ![t.m] = {}] ELSE sinks
    /\ tds' = BagAdd(BagRem(tds, t), [t EXCEPT !.pc = "delete"])
    /\ UNCHANGED <<cfg, selVars, sessions, mounts, shareBC, sharePipe, req, nreq,
                   pcState, cbReg, setupTimer, closers, ndelete, detachRuns, pcCloses>>

\* 694-696 under s.mu: delete(s.mounts, key), whatever the entry now is.
TeardownDelete(t) ==
    /\ BagIn(t, tds) /\ t.pc = "delete"
    /\ mounts' = MapRemove(mounts, t.key)
    /\ tds' = BagRem(tds, t)
    /\ UNCHANGED <<cfg, selVars, sessions, mount, sinks, shareBC, sharePipe, req, nreq,
                   pcState, cbReg, setupTimer, closers, ndelete, detachRuns, pcCloses>>

\* ----- POST /whep (server.go:189-329, 744-866) -----

\* 212-246 and ensureSharedPipeline's first critical section (745-767): the
\* peer connection exists; reuse the shared broadcaster or set out to build
\* one (broadcaster object r, local to the call until it is published).
EnsureSharedLookup ==
    /\ LET r == nreq + 1 IN
       /\ nreq' = r
       /\ pcState' = [pcState EXCEPT ![r] = "new"]
       /\ req' = [req EXCEPT ![r] = [kind |-> "legacy",
                                     pc |-> IF shareBC # 0 THEN "attach" ELSE "start",
                                     m |-> 0, det |-> 0, status |-> 0]]
       /\ reqSel' = IF shareBC # 0 THEN reqSel ELSE [reqSel EXCEPT ![r] = ndiSel]
    /\ UNCHANGED <<cfg, ndiSel, pipeSel, sel, nselect,
                   sessions, mounts, mount, sinks, shareBC, sharePipe, cbReg,
                   setupTimer, closers, tds, ndelete, detachRuns, pcCloses>>

\* 794-866: start the pipeline on the new broadcaster and publish it in
\* s.shareBC; a start error closes the peer connection and answers 500.
EnsureSharedStart(r) ==
    /\ req[r].kind = "legacy" /\ req[r].pc = "start"
    /\ \/ /\ sharePipe' = [sharePipe EXCEPT ![r] = "running"]
          /\ pipeSel' = [pipeSel EXCEPT ![r] = reqSel[r]]
          /\ shareBC' = r
          /\ req' = [req EXCEPT ![r].pc = "attach"]
          /\ UNCHANGED <<pcState, pcCloses>>
       \/ /\ pcState' = [pcState EXCEPT ![r] = "closed"]
          /\ pcCloses' = [pcCloses EXCEPT ![r] = Inc2(@)]
          /\ req' = [req EXCEPT ![r] = [@ EXCEPT !.pc = "done", !.status = 500]]
          /\ UNCHANGED <<shareBC, sharePipe, pipeSel>>
    /\ UNCHANGED <<cfg, ndiSel, reqSel, sel, nselect,
                   sessions, mounts, mount, sinks, nreq, cbReg,
                   setupTimer, closers, tds, ndelete, detachRuns>>

\* 254-262 under s.mu: add the track to the shared broadcaster if there is one.
SharedAttach(r) ==
    /\ req[r].kind = "legacy" /\ req[r].pc = "attach"
    /\ IF shareBC # 0
       THEN /\ sinks' = [sinks EXCEPT ![shareBC] = @ \cup {r}]
            /\ req' = [req EXCEPT ![r] = [@ EXCEPT !.pc = "sdp", !.det = shareBC]]
       ELSE /\ req' = [req EXCEPT ![r] = [@ EXCEPT !.pc = "sdp", !.det = 0]]
            /\ UNCHANGED sinks
    /\ UNCHANGED <<cfg, selVars, sessions, mounts, mount, shareBC, sharePipe, nreq, pcState,
                   cbReg, setupTimer, closers, tds, ndelete, detachRuns, pcCloses>>

\* 283-329: register the session, register the connection-state handler,
\* start the 30 s setup-timeout goroutine, answer 201.
SharedRegister(r) ==
    /\ req[r].kind = "legacy" /\ req[r].pc = "sdp"
    /\ sessions' = MapPut(sessions, r, [mountKey |-> NoKey, det |-> req[r].det, state |-> ""])
    /\ cbReg' = [cbReg EXCEPT ![r] = TRUE]
    /\ setupTimer' = [setupTimer EXCEPT ![r] = "armed"]
    /\ req' = [req EXCEPT ![r] = [@ EXCEPT !.pc = "done", !.det = 0, !.status = 201]]
    /\ UNCHANGED <<cfg, selVars, mounts, mount, sinks, shareBC, sharePipe, nreq, pcState,
                   closers, tds, ndelete, detachRuns, pcCloses>>

\* 306-322: the setup timer fires; a session still registered whose peer
\* connection is New or Connecting is closed.
SetupTimeout(r) ==
    /\ setupTimer[r] = "armed"
    /\ setupTimer' = [setupTimer EXCEPT ![r] = "fired"]
    /\ closers' = IF r \in DOMAIN sessions /\ pcState[r] \in {"new", "connecting"}
                  THEN BagAdd(closers, [id |-> r, pc |-> "lookup", sess |-> NoSess])
                  ELSE closers
    /\ UNCHANGED <<cfg, selVars, sessions, mounts, mount, sinks, shareBC, sharePipe, req, nreq,
                   pcState, cbReg, tds, ndelete, detachRuns, pcCloses>>

\* ----- peer connection (pion) -----

\* Connection states the ICE/DTLS transports move a live peer connection
\* through once the answer is out.
PcMoves == {<<"new", "connecting">>, <<"connecting", "connected">>,
            <<"connecting", "failed">>, <<"connected", "disconnected">>}

ClosingStates == {"failed", "closed", "disconnected"}

\* 292-303 / 487-497: the handler pion starts on a state change.  It records
\* the state of a session that is registered; Failed, Closed and Disconnected
\* go on to closeSession(id), which runs as an invocation of its own.
OnConnectionStateChange(id, state) ==
    [sess |-> IF id \in DOMAIN sessions
              THEN [sessions EXCEPT ![id].state = state]
              ELSE sessions,
     close |-> IF state \in ClosingStates
               THEN BagAdd(closers, [id |-> id, pc |-> "lookup", sess |-> NoSess])
               ELSE closers]

\* The transports move the peer connection to another state; the registered
\* handler is called with it.
PcMove(r, to) ==
    /\ cbReg[r]
    /\ <<pcState[r], to>> \in PcMoves
    /\ pcState' = [pcState EXCEPT ![r] = to]
    /\ sessions' = OnConnectionStateChange(r, to).sess
    /\ closers' = OnConnectionStateChange(r, to).close
    /\ UNCHANGED <<cfg, selVars, mounts, mount, sinks, shareBC, sharePipe, req, nreq,
                   cbReg, setupTimer, tds, ndelete, detachRuns, pcCloses>>

\* ----- DELETE /whep/{id}, DELETE /whep/ndi/{key}/sessions/{id} -----

\* 347-350, 1093-1096: a client that got its Location deletes the resource.
HandleDelete(r) ==
    /\ ndelete < MaxDelete
    /\ req[r].status = 201
    /\ ndelete' = ndelete + 1
    /\ closers' = BagAdd(closers, [id |-> r, pc |-> "lookup", sess |-> NoSess])
    /\ UNCHANGED <<cfg, selVars, sessions, mounts, mount, sinks, shareBC, sharePipe, req, nreq,
                   pcState, cbReg, setupTimer, tds, detachRuns, pcCloses>>

\* An id that no create request was answered with.
UnknownId == 0

\* 1093-1096 for an id the server never gave out: closeSession(id), then 204.
HandleDeleteUnknown ==
    /\ ndelete < MaxUnknown
    /\ ndelete' = ndelete + 1
    /\ closers' = BagAdd(closers, [id |-> UnknownId, pc |-> "lookup", sess |-> NoSess])
    /\ UNCHANGED <<cfg, selVars, sessions, mounts, mount, sinks, shareBC, sharePipe, req, nreq,
                   pcState, cbReg, setupTimer, tds, detachRuns, pcCloses>>

\* 1090-1092: PATCH answers 204 and does nothing else.
HandlePatch == UNCHANGED vars

\* ----- closeSession (server.go:1185-1232) -----

\* 1215-1231 under s.mu: with no session left in the table `tbl`, stop the
\* shared pipeline and close its broadcaster.
StopSharedIfUnused(tbl) ==
    IF Cardinality(DOMAIN tbl) = 0 /\ shareBC # 0
    THEN /\ sharePipe' = [sharePipe EXCEPT ![shareBC] = "stopped"]
         /\ sinks' = [sinks EXCEPT ![shareBC] = {}]
         /\ shareBC' = 0
    ELSE UNCHANGED <<sharePipe, sinks, shareBC>>

\* closeSession without the delete of line 1188.
TakeSessionKeep(tbl, id) == tbl

\* 1188: delete(s.sessions, id)
TakeSession(tbl, id) == MapRemove(tbl, id)

\* 1186-1189 under s.mu: take the session out of the table.  An id that is
\* not in the table (ids are never reused, and only the ids of registered
\* sessions are ever closed) has nothing to release: its first critical
\* section reads only, so the call is its last critical section (1215-1231).
CloseLookup(c) ==
    /\ BagIn(c, closers) /\ c.pc = "lookup"
    /\ IF c.id \in DOMAIN sessions
       THEN /\ sessions' = TakeSession(sessions, c.id)
            /\ closers' = BagAdd(BagRem(closers, c),
                                 [c EXCEPT !.pc = "release",
                                           !.sess = [mountKey |-> sessions[c.id].mountKey,
                                                     det |-> sessions[c.id].det,
                                                     nil |-> FALSE]])
            /\ UNCHANGED <<sharePipe, sinks, shareBC>>
       ELSE /\ closers' = BagRem(closers, c)
            /\ StopSharedIfUnused(sessions)
            /\ UNCHANGED sessions
    /\ UNCHANGED <<cfg, selVars, mounts, mount, req, nreq,
                   pcState, cbReg, setupTimer, tds, ndelete, detachRuns, pcCloses>>

\* The detach closure of SampleBroadcaster.Add (broadcaster.go:49-56): remove
\* the sink if the broadcaster still holds it.
Detach(b, id) ==
    IF b = 0 THEN sinks ELSE [sinks EXCEPT ![b] = @ \ {id}]

\* 1190-1205: sess.detach(), then sess.pc.Close(); Close moves the connection
\* to Closed and the registered handler is called with it (the session is out
\* of the table by now, so the handler only calls closeSession again).
CloseRelease(c) ==
    /\ BagIn(c, closers) /\ c.pc = "release"
    /\ sinks' = Detach(c.sess.det, c.id)
    /\ detachRuns' = [detachRuns EXCEPT ![c.id] = Inc2(@)]
    /\ pcCloses' = [pcCloses EXCEPT ![c.id] = Inc2(@)]
    /\ pcState' = [pcState EXCEPT ![c.id] = "closed"]
    /\ LET next == [c EXCEPT !.pc = IF c.sess.mountKey # NoKey THEN "mount" ELSE "tail"]
           rest == BagAdd(BagRem(closers, c), next)
       IN  closers' = IF cbReg[c.id] /\ pcState[c.id] # "closed"
                      THEN BagAdd(rest, [id |-> c.id, pc |-> "lookup", sess |-> NoSess])
                      ELSE rest
    /\ UNCHANGED <<cfg, selVars, sessions, mounts, mount, shareBC, sharePipe, req, nreq,
                   cbReg, setupTimer, tds, ndelete>>

\* 1207-1213 under s.mu and m.mu: removeSession on the mount the registry
\* holds under sess.mountKey.
CloseMount(c) ==
    /\ BagIn(c, closers) /\ c.pc = "mount"
    /\ mount' = IF c.sess.mountKey \in DOMAIN mounts
                THEN [mount EXCEPT ![mounts[c.sess.mountKey]] = RemoveSession(@, c.id)]
                ELSE mount
    /\ closers' = BagAdd(BagRem(closers, c), [c EXCEPT !.pc = "tail"])
    /\ UNCHANGED <<cfg, selVars, sessions, mounts, sinks, shareBC, sharePipe, req, nreq,
                   pcState, cbReg, setupTimer, tds, ndelete, detachRuns, pcCloses>>

\* 1215-1231: the last critical section of a call that found its session.
CloseTail(c) ==
    /\ BagIn(c, closers) /\ c.pc = "tail"
    /\ closers' = BagRem(closers, c)
    /\ StopSharedIfUnused(sessions)
    /\ UNCHANGED <<cfg, selVars, sessions, mounts, mount, req, nreq, pcState, cbReg,
                   setupTimer, tds, ndelete, detachRuns, pcCloses>>

\* =====================================================================
\* Media path (internal/stream): encoder loop -> async sample writer ->
\* SampleBroadcaster -> per-sink queue -> sink worker -> track.
\* One action is one channel operation, one atomic operation or one region
\* under b.mu.  Time is left out: a ticker may tick at any moment.
\* =====================================================================

\* A broadcaster that gives the sample to nobody when some queue is full.
BroadcastAllOrNone(members, ch, sm) ==
    [s \in SinkIds |-> IF s \in members /\ \A t \in members : Len(ch[t]) < QueueCap
                       THEN Append(ch[s], sm) ELSE ch[s]]

\* A broadcaster that puts the sample at the front of a sink's queue.
BroadcastPrepend(members, ch, sm) ==
    [s \in SinkIds |-> IF s \in members /\ Len(ch[s]) < QueueCap
                       THEN <<sm>> \o ch[s] ELSE ch[s]]

\* WriteSample of the broadcaster (broadcaster.go:61-72): under the read lock,
\* a non-blocking send to every registered sink; a full queue drops.
BroadcastTo(members, ch, sm) ==
    [s \in SinkIds |-> IF s \in members /\ Len(ch[s]) < QueueCap
                       THEN Append(ch[s], sm) ELSE ch[s]]

\* A broadcaster whose send to a sink blocks while the queue is full.
BroadcastPossibleBlocking(members, ch) == \A s \in members : Len(ch[s]) < QueueCap

\* Whether a WriteSample call can run to its end (it never waits for a sink).
BroadcastPossible(members, ch) == TRUE

\* atomic.Uint64.Add(^uint64(0)): minus one modulo 2^64; -1 stands for the
\* wrapped value 2^64-1.
DecU64(x) == IF x = 0 THEN -1 ELSE x - 1

\* ----- SampleBroadcaster (broadcaster.go) -----

\* 29-48: a new sink with an empty queue of capacity 4, its worker started,
\* registered under b.mu.  Sink ids are handed out in order.
Add(s) ==
    /\ sworker[s] = "none"
    /\ \A t \in SinkIds : t < s => sworker[t] # "none"
    /\ sworker' = [sworker EXCEPT ![s] = "select"]
    /\ bsinks' = bsinks \cup {s}
    /\ UNCHANGED <<sch, squit, swritten, sdetach, bcloses, pipeVars, awVars,
                   srcVars, metricVars, nsample, nticks>>

\* A detach closure that closes the quit channel on every call.
DetachSinkAlways(s) ==
    /\ bsinks' = bsinks \ {s}
    /\ squit' = [squit EXCEPT ![s] = @ + 1]

\* A detach closure that empties the whole sink set.
DetachSinkAll(s) ==
    IF s \in bsinks
    THEN /\ bsinks' = {}
         /\ squit' = [squit EXCEPT ![s] = @ + 1]
    ELSE UNCHANGED <<bsinks, squit>>

\* 49-56: the closure Add returned, under b.mu: a sink still registered is
\* removed and its quit channel closed; otherwise nothing.
DetachSink(s) ==
    IF s \in bsinks
    THEN /\ bsinks' = bsinks \ {s}
         /\ squit' = [squit EXCEPT ![s] = @ + 1]
    ELSE UNCHANGED <<bsinks, squit>>

\* One call of the closure that Add(s) returned.
Remove(s) ==
    /\ sworker[s] # "none"
    /\ sdetach' = [sdetach EXCEPT ![s] = @ + 1]
    /\ DetachSink(s)
    /\ UNCHANGED <<sch, sworker, swritten, bcloses, pipeVars, awVars,
                   srcVars, metricVars, nsample, nticks>>

\* 75-82: under b.mu every registered sink has its quit channel closed,
\* unless it is closed already, and is removed.
Close ==
    /\ squit' = [s \in SinkIds |-> IF s \in bsinks /\ squit[s] = 0
                                   THEN 1 ELSE squit[s]]
    /\ bsinks' = {}
    /\ bcloses' = bcloses + 1
    /\ UNCHANGED <<sch, sworker, swritten, sdetach, pipeVars, awVars,
                   srcVars, metricVars, nsample, nticks>>

\* 36-39: the worker's select takes the ch case: it receives the head of the
\* queue and calls the track's WriteSample with it.  Go's select picks among
\* the ready cases at random, so this step is possible after quit was closed.
SinkTake(s) ==
    /\ sworker[s] = "select" /\ sch[s] # <<>>
    /\ swritten' = [swritten EXCEPT ![s] = Append(@, Head(sch[s]))]
    /\ sch' = [sch EXCEPT ![s] = Tail(@)]
    /\ sworker' = [sworker EXCEPT ![s] = "write"]
    /\ UNCHANGED <<bsinks, squit, sdetach, bcloses, pipeVars, awVars,
                   srcVars, metricVars, nsample, nticks>>

\* 39: the track's WriteSample returns.
SinkReturn(s) ==
    /\ sworker[s] = "write"
    /\ sworker' = [sworker EXCEPT ![s] = "select"]
    /\ UNCHANGED <<bsinks, sch, squit, swritten, sdetach, bcloses, pipeVars,
                   awVars, srcVars, metricVars, nsample, nticks>>

\* 39: the track's WriteSample will never return (a stalled peer).
SinkStall(s) ==
    /\ sworker[s] = "write"
    /\ sworker' = [sworker EXCEPT ![s] = "stuck"]
    /\ UNCHANGED <<bsinks, sch, squit, swritten, sdetach, bcloses, pipeVars,
                   awVars, srcVars, metricVars, nsample, nticks>>

\* 40-41: the worker's select takes the quit case and the goroutine ends.
SinkQuit(s) ==
    /\ sworker[s] = "select" /\ squit[s] > 0
    /\ sworker' = [sworker EXCEPT ![s] = "exit"]
    /\ UNCHANGED <<bsinks, sch, squit, swritten, sdetach, bcloses, pipeVars,
                   awVars, srcVars, metricVars, nsample, nticks>>

\* ----- metrics (metrics.go) -----

\* An incFramesIn that counts nothing.
IncFramesInSkipped(v) == v

\* 57: incFramesIn: framesIn.Add(1).
IncFramesIn(v) == v + 1

\* 62-69: registerPipeline(codec).
RegisterPipeline(codec) ==
    /\ activePipelines' = activePipelines + 1
    /\ activeVP8' = IF codec = "vp8" THEN activeVP8 + 1 ELSE activeVP8
    /\ activeVP9' = IF codec = "vp9" THEN activeVP9 + 1 ELSE activeVP9
    /\ activeAV1' = IF codec = "av1" THEN activeAV1 + 1 ELSE activeAV1

\* 70-78: unregisterPipeline(codec).
UnregisterPipeline(codec) ==
    /\ activePipelines' = DecU64(activePipelines)
    /\ activeVP8' = IF codec = "vp8" THEN DecU64(activeVP8) ELSE activeVP8
    /\ activeVP9' = IF codec = "vp9" THEN DecU64(activeVP9) ELSE activeVP9
    /\ activeAV1' = IF codec = "av1" THEN DecU64(activeAV1) ELSE activeAV1

\* ----- encoder pipelines (pipeline_vpx.go, pipeline_vpx_vp9_stub.go) -----

\* The VP8 pipeline is the only one that counts frames, keeps the gauge and
\* writes through an async sample writer.
Instrumented(p) == pcodec[p] = "vp8"

\* StartVP8Pipeline / StartVP9Pipeline / StartAV1Pipeline and start(): the
\* encoder is created (or start returns its error), the quit channel made,
\* the VP8 pipeline registered, the loop goroutine started; the loop creates
\* its async writer before its first select (pipeline_vpx.go:79).  The
\* pipelines of the model read one source: the NDI source the caller passed,
\* or the synthetic one made for a nil cfg.Source (pipeline_vpx.go:17-19).
PStart(p, codec, kind, ok) ==
    /\ ploop[p] = "none"
    /\ pcodec' = [pcodec EXCEPT ![p] = codec]
    /\ srcKind' = IF srcKind = "none" THEN kind ELSE srcKind
    /\ IF ok
       THEN /\ ploop' = [ploop EXCEPT ![p] = "select"]
            /\ penc' = [penc EXCEPT ![p] = "open"]
            /\ IF codec = "vp8"
               THEN /\ RegisterPipeline("vp8")
                    /\ awworker' = [awworker EXCEPT ![p] = "select"]
               ELSE UNCHANGED <<gaugeVars, awworker>>
       ELSE /\ ploop' = [ploop EXCEPT ![p] = "failed"]
            /\ UNCHANGED <<penc, gaugeVars, awworker>>
    /\ UNCHANGED <<pstopped, pclosing, pquit, pau, pacc, pstops, awch, awquit, awcur,
                   bcVars, srcStopped, srcQuit, rxCloses, srcStops, frameVars,
                   nsample, nticks>>

\* A return that takes every started pipeline down with it.
LoopReturnAll(p) ==
    /\ ploop' = [q \in PipeIds |-> IF ploop[q] \in {"none", "failed"} THEN ploop[q] ELSE "exited"]
    /\ penc' = [q \in PipeIds |-> IF penc[q] = "open" THEN "closed" ELSE penc[q]]
    /\ IF Instrumented(p)
       THEN /\ awquit' = [awquit EXCEPT ![p] = @ + 1]
            /\ UnregisterPipeline("vp8")
       ELSE UNCHANGED <<awquit, gaugeVars>>

\* The loop returns: its deferred calls run (stopWriter, ticker.Stop,
\* enc.Close, unregisterPipeline for VP8).
LoopReturn(p) ==
    /\ ploop' = [ploop EXCEPT ![p] = "exited"]
    /\ penc' = [penc EXCEPT ![p] = "closed"]
    /\ IF Instrumented(p)
       THEN /\ awquit' = [awquit EXCEPT ![p] = @ + 1]
            /\ UnregisterPipeline("vp8")
       ELSE UNCHANGED <<awquit, gaugeVars>>

\* pipeline_vpx.go:82: the select takes the quit case.
LoopQuit(p) ==
    /\ ploop[p] = "select" /\ pquit[p] > 0
    /\ LoopReturn(p)
    /\ UNCHANGED <<pcodec, pstopped, pclosing, pquit, pau, pacc, pstops,
                   awch, awworker, awcur, bcVars, srcVars, frameVars, nsample, nticks>>

\* pipeline_vpx.go:82-94: the select takes the tick; Source.Next(), then
\* incFramesIn (VP8), then the loop ends if the source is closed, skips the
\* tick if the buffer is short, and goes on to encode otherwise.  Only a
\* stopped synthetic source reports closed (pipeline.go:62-65); NDISource.Next
\* always reports ok.
LoopTick(p, short) ==
    /\ ploop[p] = "select"
    /\ nticks' = nticks + 1
    /\ framesIn' = IF Instrumented(p) THEN IncFramesIn(framesIn) ELSE framesIn
    /\ IF srcKind = "synthetic" /\ srcStopped = 1
       THEN LoopReturn(p)
       ELSE /\ ploop' = [ploop EXCEPT ![p] = IF short THEN "select" ELSE "encode"]
            /\ UNCHANGED <<penc, awquit, gaugeVars>>
    /\ UNCHANGED <<pcodec, pstopped, pclosing, pquit, pau, pacc, pstops,
                   awch, awworker, awcur, bcVars, srcVars,
                   framesEncoded, framesDropped, samplesSent, nsample>>

\* pipeline_vpx.go:95-98: EncodeI420 returns an error (the loop ends) or n
\* access units; the VP8 loop counts the frame as dropped (n = 0) or encoded.
LoopEncode(p, n, err) ==
    /\ ploop[p] = "encode"
    /\ IF err
       THEN /\ LoopReturn(p)
            /\ UNCHANGED <<pau, pacc, frameVars, nsample>>
       ELSE /\ pau' = [pau EXCEPT ![p] = [i \in 1..n |-> nsample + i]]
            /\ pacc' = [pacc EXCEPT ![p] = 0]
            /\ nsample' = nsample + n
            /\ ploop' = [ploop EXCEPT ![p] = IF n = 0 THEN "select" ELSE "enqueue"]
            /\ framesDropped' = IF Instrumented(p) /\ n = 0
                                THEN framesDropped + 1 ELSE framesDropped
            /\ framesEncoded' = IF Instrumented(p) /\ n > 0
                                THEN framesEncoded + 1 ELSE framesEncoded
            /\ UNCHANGED <<penc, awquit, gaugeVars, framesIn, samplesSent>>
    /\ UNCHANGED <<pcodec, pstopped, pclosing, pquit, pstops,
                   awch, awworker, awcur, bcVars, srcVars, nticks>>

\* pipeline_vpx.go:100-106: the next access unit goes to the async writer's
\* queue unless that is full (sample_writer.go:36-43); after the last one
\* incSamplesSent(accepted).  The VP9 and AV1 loops call the track's
\* WriteSample themselves (pipeline_vpx_vp9_stub.go:203-208, 103-108).
LoopEnqueue(p) ==
    /\ ploop[p] = "enqueue"
    /\ LET au == Head(pau[p])
           last == Len(pau[p]) = 1
           room == Len(awch[p]) < QueueCap
           acc == IF Instrumented(p) /\ room THEN pacc[p] + 1 ELSE pacc[p]
       IN  /\ IF Instrumented(p)
              THEN /\ awch' = [awch EXCEPT ![p] = IF room THEN Append(@, au) ELSE @]
                   /\ UNCHANGED sch
              ELSE /\ BroadcastPossible(bsinks, sch)
                   /\ sch' = BroadcastTo(bsinks, sch, au)
                   /\ UNCHANGED awch
           /\ pau' = [pau EXCEPT ![p] = Tail(@)]
           /\ pacc' = [pacc EXCEPT ![p] = IF last THEN 0 ELSE acc]
           /\ samplesSent' = IF last THEN samplesSent + acc ELSE samplesSent
           /\ ploop' = [ploop EXCEPT ![p] = IF last THEN "select" ELSE "enqueue"]
    /\ UNCHANGED <<pcodec, pstopped, pclosing, pquit, penc, pstops,
                   awquit, awworker, awcur, bsinks, squit, sworker, swritten,
                   sdetach, bcloses, srcVars, gaugeVars,
                   framesIn, framesEncoded, framesDropped, nsample, nticks>>

\* A compare-and-swap that every caller wins.
StopWinsAlways(flag) == TRUE

\* atomic.CompareAndSwapInt32(&stopped, 0, 1) succeeds.
StopWins(flag) == flag = 0

\* pipeline_vpx.go:110-112: Stop on a started pipeline: the compare-and-swap.
PStopCAS(p) ==
    /\ ploop[p] \notin {"none", "failed"}
    /\ pstops' = [pstops EXCEPT ![p] = @ + 1]
    /\ IF StopWins(pstopped[p])
       THEN /\ pstopped' = [pstopped EXCEPT ![p] = 1]
            /\ pclosing' = [pclosing EXCEPT ![p] = TRUE]
       ELSE UNCHANGED <<pstopped, pclosing>>
    /\ UNCHANGED <<pcodec, ploop, pquit, penc, pau, pacc, awVars, bcVars,
                   srcVars, metricVars, nsample, nticks>>

\* pipeline_vpx.go:113: the caller that won closes the quit channel.
PStopClose(p) ==
    /\ pclosing[p]
    /\ pclosing' = [pclosing EXCEPT ![p] = FALSE]
    /\ pquit' = [pquit EXCEPT ![p] = @ + 1]
    /\ UNCHANGED <<pcodec, ploop, pstopped, penc, pau, pacc, pstops, awVars,
                   bcVars, srcVars, metricVars, nsample, nticks>>

\* ----- async sample writer (sample_writer.go) -----

\* 28-29: the writer's select receives the head of its queue.
AwTake(p) ==
    /\ awworker[p] = "select" /\ awch[p] # <<>>
    /\ awcur' = [awcur EXCEPT ![p] = Head(awch[p])]
    /\ awch' = [awch EXCEPT ![p] = Tail(@)]
    /\ awworker' = [awworker EXCEPT ![p] = "write"]
    /\ UNCHANGED <<awquit, pipeVars, bcVars, srcVars, metricVars, nsample, nticks>>

\* 30: w.WriteSample(s) on the pipeline's track, the broadcaster.
AwWrite(p) ==
    /\ awworker[p] = "write"
    /\ BroadcastPossible(bsinks, sch)
    /\ sch' = BroadcastTo(bsinks, sch, awcur[p])
    /\ awcur' = [awcur EXCEPT ![p] = 0]
    /\ awworker' = [awworker EXCEPT ![p] = "select"]
    /\ UNCHANGED <<awch, awquit, pipeVars, bsinks, squit, sworker, swritten,
                   sdetach, bcloses, srcVars, metricVars, nsample, nticks>>

\* 31-32: the writer's select takes the quit case and the goroutine ends.
AwQuit(p) ==
    /\ awworker[p] = "select" /\ awquit[p] > 0
    /\ awworker' = [awworker EXCEPT ![p] = "exit"]
    /\ UNCHANGED <<awch, awquit, awcur, pipeVars, bcVars, srcVars, metricVars,
                   nsample, nticks>>

\* ----- sources (source_ndi.go, pipeline.go) -----

\* source_ndi.go:147-152: NDISource.Stop closes quit and the receiver if its
\* compare-and-swap succeeds; pipeline.go:344: synthetic.Stop sets its flag.
SrcStop ==
    /\ srcKind # "none"
    /\ srcStops' = srcStops + 1
    /\ IF srcKind = "ndi"
       THEN IF StopWins(srcStopped)
            THEN /\ srcStopped' = 1
                 /\ srcQuit' = srcQuit + 1
                 /\ rxCloses' = rxCloses + 1
            ELSE UNCHANGED <<srcStopped, srcQuit, rxCloses>>
       ELSE /\ srcStopped' = 1
            /\ UNCHANGED <<srcQuit, rxCloses>>
    /\ UNCHANGED <<srcKind, pipeVars, awVars, bcVars, metricVars, nsample, nticks>>

\* ----- NDI discovery (internal/ndi) -----

\* strings.Contains.
Contains(str, sub) ==
    \E i \in 1..(Len(str) - Len(sub) + 1) : SubSeq(str, i, i + Len(sub) - 1) = sub

\* ListSources keeps an entry unless its name holds "remote connection"
\* (lower-cased) or it has neither name nor url.
Listed(si) ==
    /\ ~Contains(ToLower(si.Name), RemoteConnection)
    /\ si.Name # <<>> \/ si.URL # <<>>

\* ListSources: nil when the finder reported nothing (or could not be
\* created); otherwise the entries it keeps, which may be none at all
\* (latest = tmp with tmp := make([]SourceInfo, 0, n)).
ListSources(raw) ==
    IF raw = <<>>
    THEN [isNil |-> TRUE, list |-> <<>>]
    ELSE [isNil |-> FALSE, list |-> SelectSeq(raw, Listed)]

\* StartBackgroundDiscovery, the ticker case: srcs := ListSources(2000).
PollList(raw) ==
    /\ poll = "wait"
    /\ srcs' = ListSources(raw)
    /\ poll' = "store"
    /\ npolls' = npolls + 1
    /\ UNCHANGED <<cache, bg>>

\* if srcs != nil { cs.sources = copy of srcs } under cs.mu.
PollStore ==
    /\ poll = "store"
    /\ cache' = IF srcs.isNil THEN cache ELSE srcs.list
    /\ poll' = "wait"
    /\ UNCHANGED <<srcs, npolls, bg>>

\* ----- the background worker's life (part_004:254-301) -----

\* StartBackgroundDiscovery 254-264: a call while cs.started is set returns
\* at once; otherwise set started, make a new quit channel and start the
\* worker goroutine.
StartBackgroundDiscovery ==
    /\ bg.calls < MaxBgCalls
    /\ IF bg.started
       THEN bg' = [bg EXCEPT !.calls = @ + 1]
       ELSE bg' = [bg EXCEPT !.calls = @ + 1,
                             !.started = TRUE,
                             !.quit = Len(bg.closes) + 1,
                             !.closes = Append(@, 0),
                             !.workers = Append(@, [pc |-> "loop", ch |-> 0])]
    /\ UNCHANGED <<cache, poll, srcs, npolls>>

\* StopBackgroundDiscovery 294-301: if started, close(cs.quit) and clear
\* started.
StopBackgroundDiscovery ==
    /\ bg.calls < MaxBgCalls
    /\ IF bg.started
       THEN bg' = [bg EXCEPT !.calls = @ + 1,
                             !.started = FALSE,
                             !.closes[bg.quit] = @ + 1]
       ELSE bg' = [bg EXCEPT !.calls = @ + 1]
    /\ UNCHANGED <<cache, poll, srcs, npolls>>

\* 268-270: the worker enters its select; the channel operand cs.quit is
\* evaluated now, from the package variable and without cs.mu.
WorkerSelect(w) ==
    /\ bg.workers[w].pc = "loop"
    /\ bg' = [bg EXCEPT !.workers[w] = [pc |-> "select", ch |-> bg.quit]]
    /\ UNCHANGED <<cache, poll, srcs, npolls>>

\* 270-271: the channel the select waits on is closed: the worker returns.
WorkerQuit(w) ==
    /\ bg.workers[w].pc = "select"
    /\ bg.closes[bg.workers[w].ch] > 0
    /\ bg' = [bg EXCEPT !.workers[w].pc = "exited"]
    /\ UNCHANGED <<cache, poll, srcs, npolls>>

\* 272: the ticker fires (select may take it also when the quit channel is
\* closed) and the worker starts a poll.
WorkerTick(w) ==
    /\ bg.workers[w].pc = "select"
    /\ bg.ticks < MaxBgTicks
    /\ bg' = [bg EXCEPT !.workers[w].pc = "poll", !.ticks = @ + 1]
    /\ UNCHANGED <<cache, poll, srcs, npolls>>

\* 274-286: ListSources(2000) returns and a non-nil list replaces the
\* cache; the worker goes round its loop.
WorkerPoll(w, raw) ==
    /\ bg.workers[w].pc = "poll"
    /\ cache' = IF ListSources(raw).isNil THEN cache ELSE ListSources(raw).list
    /\ bg' = [bg EXCEPT !.workers[w].pc = "loop"]
    /\ UNCHANGED <<poll, srcs, npolls>>

\* What the finder reports to a background worker.
BgRawLists == UNION {[1..n -> RawSources] : n \in 0..1}

NextBackground ==
    \/ /\ StartBackgroundDiscovery
       /\ UNCHANGED <<vars, svars, lvars, rvars, pvars>>
    \/ /\ StopBackgroundDiscovery
       /\ UNCHANGED <<vars, svars, lvars, rvars, pvars>>
    \/ /\ \E w \in 1..Len(bg.workers) : WorkerSelect(w)
       /\ UNCHANGED <<vars, svars, lvars, rvars, pvars>>
    \/ /\ \E w \in 1..Len(bg.workers) : WorkerQuit(w)
       /\ UNCHANGED <<vars, svars, lvars, rvars, pvars>>
    \/ /\ \E w \in 1..Len(bg.workers) : WorkerTick(w)
       /\ UNCHANGED <<vars, svars, lvars, rvars, pvars>>
    \/ /\ \E w \in 1..Len(bg.workers), raw \in BgRawLists : WorkerPoll(w, raw)
       /\ UNCHANGED <<vars, svars, lvars, rvars, pvars>>

\* ----- POST /ndi/select (server.go:1011-1048, 868-982) -----

\* streamNDISources 1077-1084: Splash, then the cached sources.
StreamNDISources == <<[Name |-> SplashName, URL |-> SplashURL]>> \o cache

\* 1029-1041: the first source whose lower-cased name holds the lower-cased
\* query or whose url equals it ignoring case; the first source when that
\* gave no name.
SelectMatch(list, source) ==
    LET q == ToLower(source)
        hits == {i \in 1..Len(list) :
                    Contains(ToLower(list[i].Name), q) \/ EqualFold(list[i].URL, source)}
        first == IF hits = {} THEN NoSel
                 ELSE list[CHOOSE i \in hits : \A j \in hits : i <= j]
    IN  IF first.Name = <<>> /\ Len(list) > 0 THEN list[1] ELSE first

\* What the request bodies of the model ask for.
SelectQueries == {<<"c", "a", "m">>, <<"S", "P", "L">>, <<"z">>}

\* 1024-1044: decode the body, match, and store the selection under s.mu.
NDISelect(source) ==
    /\ sel.pc = "idle"
    /\ nselect' = nselect + 1
    /\ ndiSel' = SelectMatch(StreamNDISources, source)
    /\ sel' = [sel EXCEPT !.pc = "teardown"]
    /\ UNCHANGED <<cfg, reqSel, pipeSel, sessions, mounts, mount, sinks, shareBC,
                   sharePipe, req, nreq, pcState, cbReg, setupTimer, closers, tds,
                   ndelete, detachRuns, pcCloses>>

\* restartSharedPipeline 871-887 under s.mu: nothing to do without a shared
\* broadcaster; otherwise cancel the monitor, stop the pipeline and the
\* source, and snapshot the broadcaster and the selection.
RestartTeardown ==
    /\ sel.pc = "teardown"
    /\ IF shareBC = 0
       THEN /\ sel' = IdleSel
            /\ UNCHANGED sharePipe
       ELSE /\ sharePipe' = [sharePipe EXCEPT ![shareBC] = "stopped"]
            /\ sel' = [pc |-> "start", bc |-> shareBC, snap |-> ndiSel]
    /\ UNCHANGED <<cfg, ndiSel, reqSel, pipeSel, nselect, sessions, mounts, mount,
                   sinks, shareBC, req, nreq, pcState, cbReg, setupTimer, closers,
                   tds, ndelete, detachRuns, pcCloses>>

\* 888-924: the new pipeline is started on the same broadcaster with the
\* snapshot selection, or its start fails and restartSharedPipeline returns
\* the error, which handleNDISelect drops (1045).
RestartStart(ok) ==
    /\ sel.pc = "start"
    /\ IF ok
       THEN /\ sharePipe' = [sharePipe EXCEPT ![sel.bc] = "running"]
            /\ pipeSel' = [pipeSel EXCEPT ![sel.bc] = sel.snap]
            /\ sel' = [sel EXCEPT !.pc = "publish"]
       ELSE /\ sel' = IdleSel
            /\ UNCHANGED <<sharePipe, pipeSel>>
    /\ UNCHANGED <<cfg, ndiSel, reqSel, nselect, sessions, mounts, mount,
                   sinks, shareBC, req, nreq, pcState, cbReg, setupTimer, closers,
                   tds, ndelete, detachRuns, pcCloses>>

\* 978-981 under s.mu: the new stop handle, source and cancel are stored;
\* 1046: the handler answers {"ok": true}.
RestartPublish ==
    /\ sel.pc = "publish"
    /\ sel' = IdleSel
    /\ UNCHANGED <<cfg, ndiSel, reqSel, pipeSel, nselect, sessions, mounts, mount,
                   sinks, shareBC, sharePipe, req, nreq, pcState, cbReg, setupTimer,
                   closers, tds, ndelete, detachRuns, pcCloses>>

\* What the finder may report in one poll.
RawLists == UNION {[1..n -> RawSources] : n \in 0..MaxFound}

\* Keys clients ask for while discovery runs.
LookupKeys == SourceKeys \cup SplashSpellings \cup {KeyCam}

NextDiscovery ==
    \/ /\ npolls < MaxPolls /\ \E raw \in RawLists : PollList(raw)
       /\ UNCHANGED <<vars, svars, lvars, rvars, pvars>>
    \/ /\ PollStore
       /\ UNCHANGED <<vars, svars, lvars, rvars, pvars>>
    \/ /\ nreq < MaxLookups /\ \E key \in LookupKeys : EnsureMountLookup(key, 0, 0)
       /\ UNCHANGED <<svars, xvars>>
    \/ /\ \E r \in ReqIds : EnsureMountStart(r)
       /\ UNCHANGED <<svars, xvars>>

SpecDiscovery == Init /\ [][NextDiscovery]_allvars

SpecBackground == Init /\ [][NextBackground]_allvars

SpecLocks == Init /\ [][NextLocks]_allvars

\* One step of thread t.
LockStep(t) == EnterBranch(t) \/ Acquire(t) \/ Release(t) \/ PassBy(t) \/ ReturnEarly(t)

\* Every goroutine that can run does, and a goroutine waiting in
\* sync.Mutex.Lock gets the mutex when it is released often enough
\* (sync.Mutex's starvation mode hands the mutex to the waiter).
FairLocks == \A t \in Threads : SF_lvars(LockStep(t))

SpecLocksFair == SpecLocks /\ FairLocks

SpecResolution == Init /\ [][NextResolution]_allvars

SpecPixFmt == Init /\ [][NextPixFmt]_allvars

\* Sessions on the shared pipeline and on mounts while discovery finds a
\* camera and clients select sources; no session is closed.
NextSelect ==
    \/ /\ npolls < 1 /\ \E raw \in [1..1 -> RawSources] : PollList(raw)
       /\ UNCHANGED <<vars, svars, lvars, rvars, pvars>>
    \/ /\ PollStore
       /\ UNCHANGED <<vars, svars, lvars, rvars, pvars>>
    \/ /\ nselect < MaxSelect /\ \E source \in SelectQueries : NDISelect(source)
       /\ UNCHANGED <<svars, xvars>>
    \/ /\ RestartTeardown
       /\ UNCHANGED <<svars, xvars>>
    \/ /\ \E ok \in BOOLEAN : RestartStart(ok)
       /\ UNCHANGED <<svars, xvars>>
    \/ /\ RestartPublish
       /\ UNCHANGED <<svars, xvars>>
    \/ /\ nreq < MaxSelReq /\ \E key \in {KeyNdiSplash, KeyCam} : EnsureMountLookup(key, 0, 0)
       /\ UNCHANGED <<svars, xvars>>
    \/ /\ \E r \in ReqIds : EnsureMountStart(r)
       /\ UNCHANGED <<svars, xvars>>
    \/ /\ \E r \in ReqIds : EnsureMountPublish(r)
       /\ UNCHANGED <<svars, xvars>>
    \/ /\ \E r \in ReqIds : HandlerAttach(r)
       /\ UNCHANGED <<svars, xvars>>
    \/ /\ \E r \in ReqIds : HandlerRegister(r)
       /\ UNCHANGED <<svars, xvars>>
    \/ /\ nreq < MaxSelReq /\ EnsureSharedLookup
       /\ UNCHANGED <<svars, xvars>>
    \/ /\ \E r \in ReqIds : EnsureSharedStart(r)
       /\ UNCHANGED <<svars, xvars>>
    \/ /\ \E r \in ReqIds : SharedAttach(r)
       /\ UNCHANGED <<svars, xvars>>
    \/ /\ \E r \in ReqIds : SharedRegister(r)
       /\ UNCHANGED <<svars, xvars>>

SpecSelect == Init /\ [][NextSelect]_allvars

\* ----- the media path of one VP8 pipeline fed by an NDI source -----

NextStream ==
    \/ /\ \E s \in SinkIds : Add(s)
       /\ UNCHANGED <<vars, xvars>>
    \/ /\ \E s \in SinkIds : SinkTake(s)
       /\ UNCHANGED <<vars, xvars>>
    \/ /\ \E s \in SinkIds : SinkReturn(s)
       /\ UNCHANGED <<vars, xvars>>
    \/ /\ SinkStall(StalledSink)
       /\ UNCHANGED <<vars, xvars>>
    \/ /\ PStart(1, "vp8", "ndi", TRUE)
       /\ UNCHANGED <<vars, xvars>>
    \/ /\ \E p \in PipeIds : LoopQuit(p)
       /\ UNCHANGED <<vars, xvars>>
    \/ /\ nsample < MaxSamples /\ \E p \in PipeIds : LoopTick(p, FALSE)
       /\ UNCHANGED <<vars, xvars>>
    \/ /\ \E p \in PipeIds, n \in 1..MaxUnits :
             nsample + n <= MaxSamples /\ LoopEncode(p, n, FALSE)
       /\ UNCHANGED <<vars, xvars>>
    \/ /\ \E p \in PipeIds : LoopEnqueue(p)
       /\ UNCHANGED <<vars, xvars>>
    \/ /\ \E p \in PipeIds : pstops[p] < 1 /\ PStopCAS(p)
       /\ UNCHANGED <<vars, xvars>>
    \/ /\ \E p \in PipeIds : PStopClose(p)
       /\ UNCHANGED <<vars, xvars>>
    \/ /\ \E p \in PipeIds : AwTake(p)
       /\ UNCHANGED <<vars, xvars>>
    \/ /\ \E p \in PipeIds : AwWrite(p)
       /\ UNCHANGED <<vars, xvars>>
    \/ /\ \E p \in PipeIds : AwQuit(p)
       /\ UNCHANGED <<vars, xvars>>

SpecStream == Init /\ [][NextStream]_allvars

\* The Go scheduler runs every runnable goroutine: a sink worker, the async
\* writer and the encoder loop each take their next step when it stays
\* possible.  Nothing is assumed about ticks, clients or a stalled track.
FairStream ==
    /\ \A s \in SinkIds : WF_fvars(SinkTake(s) /\ UNCHANGED <<vars, xvars>>)
    /\ \A s \in SinkIds : WF_fvars(SinkReturn(s) /\ UNCHANGED <<vars, xvars>>)
    /\ \A p \in PipeIds : WF_fvars(AwTake(p) /\ UNCHANGED <<vars, xvars>>)
    /\ \A p \in PipeIds : WF_fvars(AwWrite(p) /\ UNCHANGED <<vars, xvars>>)
    /\ \A p \in PipeIds : WF_fvars(LoopEnqueue(p) /\ UNCHANGED <<vars, xvars>>)

SpecStreamFair == SpecStream /\ FairStream

\* ----- the broadcaster under its callers, fed by one VP9 loop -----

NextBroadcast ==
    \/ /\ \E s \in SinkIds : Add(s)
       /\ UNCHANGED <<vars, xvars>>
    \/ /\ \E s \in SinkIds : sdetach[s] < MaxDetach /\ Remove(s)
       /\ UNCHANGED <<vars, xvars>>
    \/ /\ bcloses < MaxClose /\ Close
       /\ UNCHANGED <<vars, xvars>>
    \/ /\ \E s \in SinkIds : SinkTake(s)
       /\ UNCHANGED <<vars, xvars>>
    \/ /\ \E s \in SinkIds : SinkReturn(s)
       /\ UNCHANGED <<vars, xvars>>
    \/ /\ \E s \in SinkIds : SinkQuit(s)
       /\ UNCHANGED <<vars, xvars>>
    \/ /\ PStart(1, "vp9", "ndi", TRUE)
       /\ UNCHANGED <<vars, xvars>>
    \/ /\ nsample < MaxSamples /\ \E p \in PipeIds : LoopTick(p, FALSE)
       /\ UNCHANGED <<vars, xvars>>
    \/ /\ \E p \in PipeIds : nsample < MaxSamples /\ LoopEncode(p, 1, FALSE)
       /\ UNCHANGED <<vars, xvars>>
    \/ /\ \E p \in PipeIds : LoopEnqueue(p)
       /\ UNCHANGED <<vars, xvars>>

SpecBroadcast == Init /\ [][NextBroadcast]_allvars

\* ----- pipelines of every codec, started and stopped side by side -----

NextGauge ==
    \/ /\ \E p \in PipeIds, codec \in Codecs, kind \in {"ndi", "synthetic"}, ok \in BOOLEAN :
          PStart(p, codec, kind, ok)
       /\ UNCHANGED <<vars, xvars>>
    \/ /\ \E p \in PipeIds : LoopQuit(p)
       /\ UNCHANGED <<vars, xvars>>
    \/ /\ nticks < MaxGaugeTicks /\ \E p \in PipeIds, short \in BOOLEAN : LoopTick(p, short)
       /\ UNCHANGED <<vars, xvars>>
    \/ /\ \E p \in PipeIds, n \in 0..1, err \in BOOLEAN :
             nsample + n <= MaxSamples /\ LoopEncode(p, n, err)
       /\ UNCHANGED <<vars, xvars>>
    \/ /\ \E p \in PipeIds : LoopEnqueue(p)
       /\ UNCHANGED <<vars, xvars>>
    \/ /\ \E p \in PipeIds : pstops[p] < MaxStop /\ PStopCAS(p)
       /\ UNCHANGED <<vars, xvars>>
    \/ /\ \E p \in PipeIds : PStopClose(p)
       /\ UNCHANGED <<vars, xvars>>
    \/ /\ \E p \in PipeIds : AwTake(p)
       /\ UNCHANGED <<vars, xvars>>
    \/ /\ \E p \in PipeIds : AwWrite(p)
       /\ UNCHANGED <<vars, xvars>>
    \/ /\ \E p \in PipeIds : AwQuit(p)
       /\ UNCHANGED <<vars, xvars>>
    \/ /\ srcStops < MaxSrcStop /\ SrcStop
       /\ UNCHANGED <<vars, xvars>>

SpecGauge == Init /\ [][NextGauge]_allvars

\* ----- two pipelines whose encoders may fail, with sinks attached -----

NextEncode ==
    \/ /\ \E s \in SinkIds : Add(s)
       /\ UNCHANGED <<vars, xvars>>
    \/ /\ \E s \in SinkIds : SinkTake(s)
       /\ UNCHANGED <<vars, xvars>>
    \/ /\ \E s \in SinkIds : SinkReturn(s)
       /\ UNCHANGED <<vars, xvars>>
    \/ /\ \E p \in PipeIds, codec \in {"vp8", "vp9"} : PStart(p, codec, "ndi", TRUE)
       /\ UNCHANGED <<vars, xvars>>
    \/ /\ nticks < MaxEncodeTicks /\ \E p \in PipeIds : LoopTick(p, FALSE)
       /\ UNCHANGED <<vars, xvars>>
    \/ /\ \E p \in PipeIds, err \in BOOLEAN :
             nsample + 1 <= MaxSamples /\ LoopEncode(p, 1, err)
       /\ UNCHANGED <<vars, xvars>>
    \/ /\ \E p \in PipeIds : LoopEnqueue(p)
       /\ UNCHANGED <<vars, xvars>>
    \/ /\ \E p \in PipeIds : AwTake(p)
       /\ UNCHANGED <<vars, xvars>>
    \/ /\ \E p \in PipeIds : AwWrite(p)
       /\ UNCHANGED <<vars, xvars>>
    \/ /\ \E p \in PipeIds : AwQuit(p)
       /\ UNCHANGED <<vars, xvars>>

SpecEncode == Init /\ [][NextEncode]_allvars

\* ----- the server -----

Next ==
    \/ /\ nreq < MaxReq /\ \E kind \in {"ndi", "legacy"} : HandlerEmptyOffer(kind)
       /\ UNCHANGED <<svars, xvars>>
    \/ /\ nreq < MaxReq /\ \E key \in SourceKeys, f \in Rates : EnsureMountLookup(key, 0, f)
       /\ UNCHANGED <<svars, xvars>>
    \/ /\ \E r \in ReqIds : EnsureMountStart(r)
       /\ UNCHANGED <<svars, xvars>>
    \/ /\ \E r \in ReqIds : EnsureMountPublish(r)
       /\ UNCHANGED <<svars, xvars>>
    \/ /\ \E r \in ReqIds : HandlerPCFail(r)
       /\ UNCHANGED <<svars, xvars>>
    \/ /\ \E r \in ReqIds : HandlerAttach(r)
       /\ UNCHANGED <<svars, xvars>>
    \/ /\ \E r \in ReqIds : HandlerSDPFail(r)
       /\ UNCHANGED <<svars, xvars>>
    \/ /\ \E r \in ReqIds : HandlerRegister(r)
       /\ UNCHANGED <<svars, xvars>>
    \/ /\ \E m \in ReqIds : FireIdleTimer(m)
       /\ UNCHANGED <<svars, xvars>>
    \/ /\ \E m \in ReqIds : FireNoSessTimer(m)
       /\ UNCHANGED <<svars, xvars>>
    \/ /\ \E t \in BagToSet(tds) : TeardownLookup(t)
       /\ UNCHANGED <<svars, xvars>>
    \/ /\ \E t \in BagToSet(tds) : TeardownRefCount(t)
       /\ UNCHANGED <<svars, xvars>>
    \/ /\ \E t \in BagToSet(tds) : TeardownRelease(t)
       /\ UNCHANGED <<svars, xvars>>
    \/ /\ \E t \in BagToSet(tds) : TeardownDelete(t)
       /\ UNCHANGED <<svars, xvars>>
    \/ /\ nreq < MaxReq /\ EnsureSharedLookup
       /\ UNCHANGED <<svars, xvars>>
    \/ /\ \E r \in ReqIds : EnsureSharedStart(r)
       /\ UNCHANGED <<svars, xvars>>
    \/ /\ \E r \in ReqIds : SharedAttach(r)
       /\ UNCHANGED <<svars, xvars>>
    \/ /\ \E r \in ReqIds : SharedRegister(r)
       /\ UNCHANGED <<svars, xvars>>
    \/ /\ \E r \in ReqIds : SetupTimeout(r)
       /\ UNCHANGED <<svars, xvars>>
    \/ /\ \E r \in ReqIds, to \in {"connecting", "connected", "failed", "disconnected"} : PcMove(r, to)
       /\ UNCHANGED <<svars, xvars>>
    \/ /\ \E r \in ReqIds : HandleDelete(r)
       /\ UNCHANGED <<svars, xvars>>
    \/ /\ \E c \in BagToSet(closers) : CloseLookup(c)
       /\ UNCHANGED <<svars, xvars>>
    \/ /\ \E c \in BagToSet(closers) : CloseRelease(c)
       /\ UNCHANGED <<svars, xvars>>
    \/ /\ \E c \in BagToSet(closers) : CloseMount(c)
       /\ UNCHANGED <<svars, xvars>>
    \/ /\ \E c \in BagToSet(closers) : CloseTail(c)
       /\ UNCHANGED <<svars, xvars>>

Spec == Init /\ [][Next]_allvars

\* The mount manager alone, under clients that abandon every negotiation
\* (no session is ever registered): more requests and two variants.
NextEnsure ==
    \/ /\ nreq < MaxAbandoned /\ \E key \in SourceKeys, v \in Variants : EnsureMountLookup(key, v[1], v[2])
       /\ UNCHANGED <<svars, xvars>>
    \/ /\ \E r \in ReqIds : EnsureMountStart(r)
       /\ UNCHANGED <<svars, xvars>>
    \/ /\ \E r \in ReqIds : EnsureMountPublish(r)
       /\ UNCHANGED <<svars, xvars>>
    \/ /\ \E r \in ReqIds : HandlerPCFail(r)
       /\ UNCHANGED <<svars, xvars>>
    \/ /\ \E r \in ReqIds : HandlerAttach(r)
       /\ UNCHANGED <<svars, xvars>>
    \/ /\ \E r \in ReqIds : HandlerSDPFail(r)
       /\ UNCHANGED <<svars, xvars>>
    \/ /\ \E m \in ReqIds : FireNoSessTimer(m)
       /\ UNCHANGED <<svars, xvars>>
    \/ /\ \E t \in BagToSet(tds) : TeardownLookup(t)
       /\ UNCHANGED <<svars, xvars>>
    \/ /\ \E t \in BagToSet(tds) : TeardownRefCount(t)
       /\ UNCHANGED <<svars, xvars>>
    \/ /\ \E t \in BagToSet(tds) : TeardownRelease(t)
       /\ UNCHANGED <<svars, xvars>>
    \/ /\ \E t \in BagToSet(tds) : TeardownDelete(t)
       /\ UNCHANGED <<svars, xvars>>

SpecEnsure == Init /\ [][NextEnsure]_allvars

\* Create requests on both endpoints, and resource requests on ids that
\* are not sessions.
NextResource ==
    \/ /\ nreq < MaxReq /\ EnsureSharedLookup
       /\ UNCHANGED <<svars, xvars>>
    \/ /\ \E r \in ReqIds : EnsureSharedStart(r)
       /\ UNCHANGED <<svars, xvars>>
    \/ /\ \E r \in ReqIds : SharedAttach(r)
       /\ UNCHANGED <<svars, xvars>>
    \/ /\ \E r \in ReqIds : SharedRegister(r)
       /\ UNCHANGED <<svars, xvars>>
    \/ /\ nreq < MaxReq /\ EnsureMountLookup(KeyNdiSplash, 0, 0)
       /\ UNCHANGED <<svars, xvars>>
    \/ /\ \E r \in ReqIds : EnsureMountStart(r)
       /\ UNCHANGED <<svars, xvars>>
    \/ /\ \E r \in ReqIds : EnsureMountPublish(r)
       /\ UNCHANGED <<svars, xvars>>
    \/ /\ \E r \in ReqIds : HandlerAttach(r)
       /\ UNCHANGED <<svars, xvars>>
    \/ /\ \E r \in ReqIds : HandlerRegister(r)
       /\ UNCHANGED <<svars, xvars>>
    \/ /\ HandleDeleteUnknown
       /\ UNCHANGED <<svars, xvars>>
    \/ /\ HandlePatch
       /\ UNCHANGED <<svars, xvars>>
    \/ /\ \E c \in BagToSet(closers) : CloseLookup(c)
       /\ UNCHANGED <<svars, xvars>>

SpecResource == Init /\ [][NextResource]_allvars

\* ======================= properties =======================

Allocated == {m \in ReqIds : mount[m].alloc}
Registered(m) == mount[m].key \in DOMAIN mounts /\ mounts[mount[m].key] = m
CallsFor(id) == {c \in BagToSet(closers) : c.id = id}
TeardownsFor(key) == {t \in BagToSet(tds) : t.key = key}
Closed(r) == req[r].status = 201 /\ r \notin DOMAIN sessions /\ CallsFor(r) = {}

\* C1: teardownMountIfIdle tears a mount down only while the mount's session
\* set is empty: no state is reached in which a mount has been torn down
\* although its session set is non-empty, whatever the interleaving of the
\* timer callback with addSession.
C1_TornDownOnlyIdle ==
    \A m \in Allocated : mount[m].torn > 0 => mount[m].sessions = {}

\* C2: a mount whose session set is non-empty has no idle timer: the field
\* is nil, so none is armed.
C2_SessionsNoIdleTimer ==
    \A m \in Allocated : mount[m].sessions # {} => mount[m].idleTimer = "nil"

\* C2 witness: a mount holds a session, after another session was closed.
C2_Witness ==
    \E m \in Allocated, r \in ReqIds :
        /\ mount[m].sessions # {}
        /\ r \notin mount[m].sessions
        /\ Closed(r)
        /\ mount[m].torn = 0

C5_NoZombieMount ==
    \A m \in Allocated :
        (/\ Registered(m)
         /\ mount[m].sessions = {}
         /\ req[m].pc \notin {"start", "publish"})
        => \/ mount[m].noSessTimer = "armed"
           \/ mount[m].idleTimer = "armed"
           \/ TeardownsFor(mount[m].key) # {}

\* C6: calls of ensureMount with the same tuple after defaulting share one
\* live mount: no two mounts of one composite key run a pipeline at the same
\* time, and no two handlers hold different mounts of one key whose
\* broadcasters are both set.
C6_OneMountPerKey ==
    /\ \A m1, m2 \in Allocated :
          (/\ mount[m1].key = mount[m2].key
           /\ mount[m1].pipe = "running"
           /\ mount[m2].pipe = "running") => m1 = m2
    /\ \A r1, r2 \in ReqIds :
          (/\ req[r1].m # 0 /\ req[r2].m # 0
           /\ mount[req[r1].m].key = mount[req[r2].m].key
           /\ mount[req[r1].m].bc /\ mount[req[r2].m].bc) => req[r1].m = req[r2].m

\* C8: a create request that built its peer connection and then failed
\* (SetRemoteDescription: 400; CreateAnswer, SetLocalDescription: 500) has
\* closed the peer connection and has left no sink in any broadcaster.
C8_SetupFailureCleansUp ==
    \A r \in ReqIds :
        (req[r].status \in {400, 500} /\ pcState[r] # "none") =>
            /\ pcState[r] = "closed"
            /\ \A b \in ReqIds : r \notin sinks[b]

\* C9: every registered session whose peer connection is New or Connecting
\* has its 30 s setup timeout ahead, or a closeSession call for it running.
C9_SetupTimeoutArmed ==
    \A r \in DOMAIN sessions :
        pcState[r] \in {"new", "connecting"} =>
            setupTimer[r] = "armed" \/ CallsFor(r) # {}

\* C4 (teardown half): once the idle timer of a mount has fired and every
\* teardown callback for its key has returned, with no session attached in
\* between (addSession would have cleared the timer field), a mount whose
\* pipeline ensureMount started and published is torn down and out of the
\* registry.
C4_IdleFiredTornDown ==
    \A m \in Allocated :
        (/\ mount[m].idleTimer = "fired"
         /\ TeardownsFor(mount[m].key) = {}
         /\ mount[m].pipe = "running" /\ mount[m].stop)
            => mount[m].torn > 0 /\ ~Registered(m)

\* A closeSession call has released session r (detach and pc.Close are done).
Released(r) ==
    /\ req[r].status = 201
    /\ r \notin DOMAIN sessions
    /\ \A c \in CallsFor(r) : c.pc # "release"

C7_Once ==
    \A r \in ReqIds :
        /\ detachRuns[r] <= 1
        /\ pcCloses[r] <= 1
        /\ Released(r) => detachRuns[r] = 1 /\ pcCloses[r] = 1

\* A step that ends a closeSession call whose id is not in the table.
RepeatCall(c) ==
    /\ c.pc = "lookup"
    /\ c.id \notin DOMAIN sessions
    /\ closers' = BagRem(closers, c)

C7_RepeatNoOp ==
    \A c \in BagToSet(closers) :
        RepeatCall(c) =>
            /\ UNCHANGED <<sessions, mounts, mount, detachRuns, pcCloses, pcState,
                           req, setupTimer, tds>>
            /\ \/ UNCHANGED <<sinks, shareBC, sharePipe>>
               \/ DOMAIN sessions = {} /\ shareBC # 0

Gone(r) ==
    /\ r \notin DOMAIN sessions
    /\ \A b \in ReqIds : r \notin sinks[b]
    /\ \A m \in Allocated : r \notin mount[m].sessions

\* C10: when the peer connection of a session has moved to Failed, Closed or
\* Disconnected and the closeSession calls this started have returned, the
\* session is out of the table, its sink is detached and its id is out of
\* its mount's session set.
C10_ClosingCloses ==
    \A r \in ReqIds :
        (cbReg[r] /\ pcState[r] \in ClosingStates /\ CallsFor(r) = {}) => Gone(r)

\* ----- media path -----

\* Elements of a sequence.
Range(q) == {q[i] : i \in 1..Len(q)}

\* This step is a WriteSample(sm) call on the broadcaster: by the async
\* writer's goroutine, or by a VP9/AV1 loop itself.
Broadcasting(sm) ==
    \/ \E p \in PipeIds : /\ awworker[p] = "write" /\ awworker'[p] = "select"
                          /\ sm = awcur[p]
    \/ \E p \in PipeIds : /\ ~Instrumented(p) /\ ploop[p] = "enqueue"
                          /\ pau[p] # <<>> /\ pau'[p] = Tail(pau[p])
                          /\ sm = Head(pau[p])

C11_QueueBound == \A s \in SinkIds : Len(sch[s]) <= QueueCap

C11_PerSinkEnqueue ==
    \A sm \in 1..MaxSamples :
        Broadcasting(sm) =>
            \A s \in SinkIds :
                sch'[s] = IF s \in bsinks /\ Len(sch[s]) < QueueCap
                          THEN Append(sch[s], sm) ELSE sch[s]

\* C11: no sink queue ever holds more than 4 samples, and a WriteSample call
\* on the broadcaster appends the sample to the queue of exactly those
\* registered sinks whose queue holds fewer than 4, leaving every other
\* queue as it is: a full queue drops for that sink only.
C11_NonBlockingFanout == [](C11_QueueBound) /\ [][C11_PerSinkEnqueue]_allvars

\* C11 witness: a registered sink's queue is full and lacks the newest
\* sample, which another sink has in its queue.
C11_Witness ==
    \E s \in bsinks, t \in bsinks :
        /\ Len(sch[s]) = QueueCap
        /\ nsample \notin Range(sch[s])
        /\ nsample \in Range(sch[t])

\* The track of the first sink has stalled: its worker never returns.
Stalled == sworker[StalledSink] = "stuck"

\* Nothing is left on the way to the sinks whose track has not stalled: the
\* loop is not in its enqueue step, the async writer holds no sample and
\* its queue is empty (or its pipeline has ended), and no other sink has a
\* sample queued or a write in progress.
Drained ==
    /\ \A p \in PipeIds :
          /\ ploop[p] # "enqueue"
          /\ awcur[p] = 0
          /\ awch[p] = <<>> \/ awworker[p] = "exit"
    /\ \A t \in SinkIds \ {StalledSink} : sch[t] = <<>> /\ sworker[t] # "write"

\* C12: once one sink's WriteSample has stalled, everything the encoder
\* loop produces still gets through: the loop gets back to its select, the
\* async writer drains its queue, and every sample queued for another sink
\* is written to that sink's track.
C12_StalledSinkIsolated == Stalled ~> Drained

\* C12 witness: the stalled sink's queue is full and has missed the newest
\* sample, which the other sink's worker has written to its track.
C12_Witness ==
    /\ Stalled
    /\ Len(sch[StalledSink]) = QueueCap
    /\ nsample \notin Range(sch[StalledSink])
    /\ \E t \in SinkIds \ {StalledSink} : nsample \in Range(swritten[t])

\* This step is a call of the detach closure of sink s.
Detaching(s) == sdetach'[s] = sdetach[s] + 1

C13_QuitClosedOnce == \A s \in SinkIds : squit[s] <= 1

C13_DetachStep ==
    \A s \in SinkIds :
        Detaching(s) =>
            IF s \in bsinks
            THEN /\ bsinks' = bsinks \ {s}
                 /\ squit[s] = 0 /\ squit' = [squit EXCEPT ![s] = 1]
            ELSE /\ squit[s] = 1
                 /\ UNCHANGED <<bsinks, sch, squit, sworker, swritten, bcloses>>

\* C13: a call of the detach closure on a registered sink removes it and
\* closes its quit channel; a call on a sink that is no longer registered,
\* because an earlier call or Close removed it, changes nothing; no quit
\* channel is ever closed twice.
C13_DetachIdempotent == [](C13_QuitClosedOnce) /\ [][C13_DetachStep]_allvars

\* C13 witness: after Close, a sink's detach closure has been called twice
\* and its quit channel has been closed once.
C13_Witness ==
    \E s \in SinkIds : bcloses > 0 /\ sdetach[s] = MaxDetach /\ squit[s] = 1

\* This step is a Close call on the broadcaster.
Closing == bcloses' = bcloses + 1

C14_CloseStep ==
    Closing => /\ bsinks' = {}
               /\ \A s \in bsinks : squit'[s] = 1

C14_WriteAfterClose ==
    \A sm \in 1..MaxSamples :
        (bcloses > 0 /\ Broadcasting(sm)) => sch' = sch

\* C14: Close leaves no sink registered and the quit channel of every sink
\* it removed closed, and a WriteSample call made after Close puts the
\* sample in no sink's queue, whatever was called in between.
C14_ClosedBroadcasterSilent == [][C14_CloseStep /\ C14_WriteAfterClose]_allvars

\* C14, Close alone: it empties the sink set and closes the quit channels.
C14_CloseStopsAll == [][C14_CloseStep]_allvars

\* The sinks Add has registered whose detach closure has not been called.
AddedNotDetached == {s \in SinkIds : sworker[s] # "none" /\ sdetach[s] = 0}

C15_SetIsAddedMinusDetached ==
    /\ bsinks \subseteq AddedNotDetached
    /\ bcloses = 0 => bsinks = AddedNotDetached

C15_AddDetachSteps ==
    /\ \A s \in SinkIds :
          (sworker[s] = "none" /\ sworker'[s] # "none") =>
              (s \notin bsinks /\ bsinks' = bsinks \cup {s})
    /\ \A s \in SinkIds : Detaching(s) => bsinks' = bsinks \ {s}
    /\ \A sm \in 1..MaxSamples : Broadcasting(sm) => bsinks' = bsinks

\* C15: Add puts exactly the new sink in the sink set, its detach closure
\* takes exactly that sink out, and WriteSample leaves the set alone, so
\* the set is always the sinks added and not detached: an Add followed by
\* its detach leaves the set as if neither had been called, whatever other
\* Add, detach and WriteSample calls run in between.
C15_AddDetachRestores ==
    [](C15_SetIsAddedMinusDetached) /\ [][C15_AddDetachSteps]_allvars

\* C15 witness: a sink was added and detached while a sink added before it
\* stays registered and its queue holds a sample.
C15_Witness ==
    \E s \in SinkIds, t \in bsinks :
        /\ t < s /\ sdetach[s] > 0 /\ s \notin bsinks
        /\ bcloses = 0 /\ sch[t] # <<>>

C16_NoWriteAfterDetach ==
    \A s \in SinkIds : sdetach[s] > 0 => swritten'[s] = swritten[s]

\* C16: once the detach closure of a sink has returned, its worker hands no
\* further sample to the sink's track, not even one that was waiting in
\* the sink's queue.
C16_DetachedSinkSilent == [][C16_NoWriteAfterDetach]_allvars

\* C16, the worker's end: a detached sink stays out of the sink set, so its
\* queue gets no new sample and the worker can only use up what is queued.
C16_DetachedQueueShrinks ==
    [][\A s \in SinkIds : sdetach[s] > 0 => Len(sch'[s]) <= Len(sch[s])]_allvars

\* The samples of q carry strictly increasing production numbers.
Ascending(q) == \A i \in 1..Len(q), j \in 1..Len(q) : i < j => q[i] < q[j]

\* What the encoder loop of p has produced and not yet handed to a sink's
\* queue, oldest last: the units still to enqueue, the async writer's
\* queue, the sample the writer holds.
Upstream(p) ==
    (IF awcur[p] = 0 THEN <<>> ELSE <<awcur[p]>>) \o awch[p] \o pau[p]

\* C17: the samples a sink's worker has written to its track, followed by
\* the samples in the sink's queue, are access units the loop produced, in
\* production order and without repetition, and everything still on its way
\* to the queue is newer: the queues drop samples but never reorder or
\* duplicate them.
C17_OrderPreserved ==
    \A s \in SinkIds :
        /\ Ascending(swritten[s] \o sch[s])
        /\ Range(swritten[s] \o sch[s]) \subseteq 1..nsample
        /\ \A p \in PipeIds :
              /\ Ascending(Upstream(p))
              /\ s \in bsinks =>
                    \A x \in Range(swritten[s] \o sch[s]), y \in Range(Upstream(p)) : x < y

\* C17 witness: a sink has written three samples to its track and missed a
\* sample produced in between, which the other sink has written.
C17_Witness ==
    \E s \in SinkIds, t \in SinkIds :
        /\ Len(swritten[s]) >= 3
        /\ \E x \in Range(swritten[t]) \ Range(swritten[s] \o sch[s]) :
              swritten[s][1] < x /\ x < swritten[s][Len(swritten[s])]

C18_ClosedOnce ==
    /\ \A p \in PipeIds : pquit[p] <= 1
    /\ srcQuit <= 1 /\ rxCloses <= 1

C18_LoopExitReleases ==
    \A p \in PipeIds :
        /\ ploop[p] = "exited" => penc[p] = "closed"
        /\ (ploop[p] = "select" /\ pquit[p] = 1) => ENABLED LoopQuit(p)

\* This step belongs to a Stop call on pipeline p.
PipelineStopping(p) == pstops'[p] # pstops[p] \/ pquit'[p] # pquit[p]

C18_StopSteps ==
    /\ \A p \in PipeIds :
          PipelineStopping(p) =>
              /\ UNCHANGED <<srcVars, ploop, penc>>
              /\ (pstops'[p] # pstops[p] /\ pstopped[p] = 1) =>
                     UNCHANGED <<pstopped, pclosing, pquit>>
    /\ (srcStops' # srcStops /\ srcStopped = 1) =>
           UNCHANGED <<srcStopped, srcQuit, rxCloses, pipeVars>>

\* C18: however many Stop calls run on a pipeline or on the source, and in
\* whatever interleaving, each quit channel (and the NDI receiver) is closed
\* at most once, and a call that finds the flag set changes nothing; a
\* pipeline Stop leaves the source as it is; once quit is closed the loop
\* at its select can take the quit case, and an exited loop has closed its
\* encoder.
C18_StopIdempotent ==
    [](C18_ClosedOnce /\ C18_LoopExitReleases) /\ [][C18_StopSteps]_allvars

\* C18 witness: Stop was called twice on a pipeline, whose loop has exited
\* with quit closed once, and the NDI source, not stopped at that point,
\* was later stopped twice too.
C18_Witness ==
    \E p \in PipeIds :
        /\ pstops[p] = MaxStop /\ pquit[p] = 1 /\ ploop[p] = "exited"
        /\ srcKind = "ndi" /\ srcStops = MaxSrcStop /\ srcQuit = 1

C19_InAtLeastOut == framesIn >= framesEncoded + framesDropped

\* This step is the tick case of the select of some loop.
Ticking == nticks' = nticks + 1

C19_TickSteps ==
    /\ Ticking =>
          /\ UNCHANGED <<framesEncoded, framesDropped>>
          /\ framesIn' \in {framesIn, framesIn + 1}
          /\ \A p \in PipeIds :
                ploop'[p] # ploop[p] =>
                    framesIn' = framesIn + (IF Instrumented(p) THEN 1 ELSE 0)
          /\ (\A p \in PipeIds : ploop[p] = "select" => Instrumented(p)) =>
                framesIn' = framesIn + 1
    /\ \A p \in PipeIds :
          (ploop[p] = "encode" /\ ploop'[p] # "encode") =>
              /\ framesIn' = framesIn
              /\ framesEncoded' + framesDropped'
                     = framesEncoded + framesDropped
                       + (IF Instrumented(p) /\ ploop'[p] # "exited" THEN 1 ELSE 0)

Running(codec) ==
    {p \in PipeIds : pcodec[p] = codec /\ ploop[p] \in {"select", "encode", "enqueue"}}

\* C20: the active_pipelines gauge is the number of running pipelines, in
\* total and for each of vp8, vp9 and av1, and no gauge is below zero.
C20_GaugeMatchesRunning ==
    /\ activeVP8 = Cardinality(Running("vp8"))
    /\ activeVP9 = Cardinality(Running("vp9"))
    /\ activeAV1 = Cardinality(Running("av1"))
    /\ activePipelines = activeVP8 + activeVP9 + activeAV1
    /\ activePipelines >= 0

\* C20, VP8 alone: the total gauge and the vp8 gauge are the number of
\* running VP8 pipelines and never wrap.
C20_GaugeMatchesRunningVP8 ==
    /\ activeVP8 = Cardinality(Running("vp8"))
    /\ activePipelines = activeVP8
    /\ activePipelines >= 0

\* ----- source keys and discovery -----

\* C21: a POST /whep/ndi/{key} whose key is a spelling of "splash" is never
\* answered 'source not found' (404), whatever the discovery cache holds.
C21_SplashAlwaysResolves ==
    [][\A key \in SplashSpellings :
          EnsureMountLookup(key, 0, 0) => req'[nreq'].status # 404]_allvars

\* C21, the key the index does hold: a request for "ndi-splash" is never
\* refused and its index entry is the synthetic generator unless discovery
\* reported a source of its own under that key.
C21_NdiSplashResolves ==
    /\ KeyNdiSplash \in DOMAIN SourceIndex
    /\ IsSynthetic(SourceIndex[KeyNdiSplash])
    /\ \A key \in SplashSpellings : key \notin DOMAIN SourceIndex

\* ----- request errors -----

\* This step is a create request that was refused for its empty body.
RefusingEmptyOffer(r) ==
    req[r].kind = "none" /\ req'[r].pc = "done" /\ req'[r].status = 400

\* C22: a create request with an empty body is answered 400 without a
\* session, mount, pipeline, peer connection, timer or broadcaster sink
\* being added, removed or changed, and without touching another request.
C22_EmptyOfferChangesNothing ==
    [][\A r \in ReqIds :
          RefusingEmptyOffer(r) =>
              /\ UNCHANGED <<sessions, mounts, mount, sinks, shareBC, sharePipe,
                             pcState, cbReg, setupTimer, closers, tds,
                             detachRuns, pcCloses, svars, xvars>>
              /\ \A q \in ReqIds \ {r} : req'[q] = req[q]]_allvars

\* C22 witness: a request was refused for its empty body while another
\* request's session is registered with its sink attached to a running mount.
C22_Witness ==
    \E r \in ReqIds, q \in DOMAIN sessions :
        /\ req[r].status = 400 /\ pcState[r] = "none"
        /\ \E m \in Allocated : q \in mount[m].sessions /\ q \in sinks[m]
                                /\ mount[m].pipe = "running"
        /\ r > q

\* This step is ensureMount refusing the key of request r (538-541).
RefusingKey(r) ==
    /\ r = nreq + 1 /\ req'[r].pc = "done"
    /\ \E key \in SourceKeys, f \in Rates : EnsureMountLookup(key, 0, f)

\* This step is ensureMount returning the pipeline's start error (596-598).
FailingStart(r) == req[r].kind = "ndi" /\ req[r].pc = "start" /\ req'[r].pc = "done"

C23_NotFoundIs404 ==
    \A r \in ReqIds :
        RefusingKey(r) => req'[r].status = 404 /\ UNCHANGED <<mounts, mount>>

C23_StartErrorIs500 ==
    \A r \in ReqIds : FailingStart(r) => req'[r].status = 500

\* C23: when ensureMount fails, the request is answered 404 with no mount
\* record added if the key is not in the source index, and 500 if the
\* source was found and the pipeline did not start.
C23_EnsureMountErrors == [][C23_NotFoundIs404 /\ C23_StartErrorIs500]_allvars

\* C23, the unknown key alone: 404 and the registry as it was.
C23_UnknownKey404 == [][C23_NotFoundIs404]_allvars

\* ----- source selection -----

\* The source a selection or a mount stands for: the synthetic generator
\* for no selection and for Splash, the url otherwise.
SourceOf(si) == IF si = NoSel \/ IsSynthetic(si) THEN <<>> ELSE si.URL

\* No POST /ndi/select and no create request is in progress.
SelectQuiescent ==
    /\ sel.pc = "idle" /\ nselect > 0
    /\ \A r \in ReqIds : req[r].pc \in {"idle", "done"}

\* C24: once a POST /ndi/select has been answered, the shared pipeline and
\* every mount pipeline that has sessions attached run on the selected
\* source.
C24_AllPipelinesFollowSelection ==
    SelectQuiescent =>
        /\ (shareBC # 0 /\ sinks[shareBC] # {}) =>
               /\ sharePipe[shareBC] = "running"
               /\ SourceOf(pipeSel[shareBC]) = SourceOf(ndiSel)
        /\ \A m \in Allocated :
               (mount[m].sessions # {} /\ mount[m].pipe = "running") =>
                   SourceOf([Name |-> mount[m].name, URL |-> mount[m].url])
                       = SourceOf(ndiSel)

\* This step belongs to a POST /ndi/select request.
Selecting == sel' # sel

\* C24, what the swap leaves alone: no session is removed, no sink set and
\* no mount changes, and the shared broadcaster stays the one it was.
C24_SwapKeepsSessions ==
    [][Selecting => UNCHANGED <<sessions, sinks, shareBC, mounts, mount, req,
                                pcState, closers, tds>>]_allvars

\* C24, the shared pipeline alone, when its restart did not fail and no
\* create request overlapped the select.
C24_SharedFollowsSelection ==
    (SelectQuiescent /\ shareBC # 0 /\ sharePipe[shareBC] = "running"
        /\ \A r \in ReqIds : req[r].kind = "legacy" => reqSel[r] = NoSel)
    => SourceOf(pipeSel[shareBC]) \in {SourceOf(ndiSel), SourceOf(NoSel)}

\* ----- locks -----

HeldBy(t) == {l \in Locks : holder[l] = t}

\* C25: no thread is ever inside two of the mutexes at once.
C25_NeverTwoLocks == \A t \in Threads : Cardinality(HeldBy(t)) <= 1

\* C25, what the code keeps instead: the mutexes are nested in one order
\* (s.mu outside m.mu and cs.mu, m.mu outside b.mu), so a thread that holds
\* two took them in that order and some thread can always go on.
C25_LocksNestInOrder ==
    /\ \A t \in Threads : HeldBy(t) \in {{}, {"s.mu"}, {"m.mu"}, {"cs.mu"}, {"b.mu"},
                                         {"s.mu", "m.mu"}, {"s.mu", "cs.mu"},
                                         {"s.mu", "b.mu"}, {"m.mu", "b.mu"}}
    /\ \E t \in Threads : ENABLED (Acquire(t) \/ Release(t) \/ PassBy(t) \/ EnterBranch(t))

\* ----- mount teardown -----

\* Each resource of a mount is released at most once: a pipeline that was
\* stopped is not stopped again or restarted by a teardown, and a teardown
\* that finds the broadcaster cleared closes nothing.
ReleasedOnce ==
    \A t \in BagToSet(tds) :
        TeardownRelease(t) =>
            /\ mount[t.m].pipe = "stopped" => ~mount[t.m].stop
            /\ ~mount[t.m].bc => sinks' = sinks
            /\ ~mount'[t.m].bc /\ ~mount'[t.m].stop

\* ensureMount never finds, under the key it looks up, a registered mount
\* whose broadcaster was cleared.
NoClearedEntrySeen ==
    \A key \in LookupKeys, v \in Variants :
        EnsureMountLookup(key, v[1], v[2]) =>
            LET ck == CompKey(key, v[1], 0, v[2], 0)
            IN  ck \in DOMAIN mounts => mount[mounts[ck]].bc

\* The delete at the end of a teardown removes the mount that was torn
\* down, if it removes any.
DeletesOwnMount ==
    \A t \in BagToSet(tds) :
        (TeardownDelete(t) /\ t.key \in DOMAIN mounts) => mounts[t.key] = t.m

\* C26: mount teardown is one-shot and its removal from the registry is
\* atomic: resources are released at most once, ensureMount never sees a
\* registered mount with a cleared broadcaster, and the delete removes only
\* the mount that was torn down.
C26_TeardownOneShotAtomic ==
    [][ReleasedOnce /\ NoClearedEntrySeen /\ DeletesOwnMount]_allvars

\* C26, the one-shot half alone.
C26_ReleasedAtMostOnce == [][ReleasedOnce]_allvars

\* ----- discovery cache -----

\* The poller stores (or drops) the list of the poll it just made.
Storing == poll = "store" /\ poll' = "wait"

\* C27: a poll that failed or found no source (nil or an empty list) leaves
\* the cache as it is, and a poll that found sources replaces the cache by
\* its list.
C27_CacheIsLastNonEmptyList ==
    [][Storing => cache' = IF srcs.list = <<>> THEN cache ELSE srcs.list]_allvars

\* C27, for the lists the code does tell apart: nil leaves the cache as it
\* is, a list with entries replaces it.
C27_NilKeepsNonEmptyReplaces ==
    [][Storing => /\ srcs.isNil => cache' = cache
                  /\ srcs.list # <<>> => cache' = srcs.list]_allvars

\* ----- encoder errors -----

\* EncodeI420 returned an error to the loop of pipeline p: the only way
\* from the encode step to the end of the loop.
EncodeFails(p) == ploop[p] = "encode" /\ ploop'[p] = "exited"

\* C28: an encoder error ends exactly the pipeline it happened in: the loop
\* exits, the encoder is closed, and for the VP8 pipeline the gauge goes down
\* by one and the async writer is told to stop; the broadcaster, its sinks,
\* every other pipeline and all server state (sessions, mounts) stay as they
\* are.
C28_EncodeErrorEndsOnePipeline ==
    [][\A p \in PipeIds : EncodeFails(p) =>
          /\ penc[p] = "open" /\ penc'[p] = "closed"
          /\ Instrumented(p) =>
                /\ awquit'[p] = awquit[p] + 1
                /\ activePipelines' = activePipelines - 1
                /\ activeVP8' = activeVP8 - 1
          /\ \A q \in PipeIds \ {p} :
                /\ ploop'[q] = ploop[q] /\ penc'[q] = penc[q]
                /\ awquit'[q] = awquit[q] /\ awworker'[q] = awworker[q]
                /\ pquit'[q] = pquit[q] /\ pstopped'[q] = pstopped[q]
          /\ UNCHANGED <<bcVars, srcVars, awch, awworker, vars>>]_allvars

\* Pipeline 1 ended on an encoder error (not stopped, source not ended)
\* while sinks are attached and pipeline 2 goes on.
C28_Witness ==
    /\ ploop[1] = "exited" /\ penc[1] = "closed" /\ pcodec[1] = "vp8"
    /\ pquit[1] = 0 /\ awquit[1] = 1
    /\ bsinks # {}
    /\ ploop[2] \in {"select", "encode", "enqueue"}

\* ----- resolution changes -----

\* The supervisor started a pipeline in place of the one it stopped.
Restarting == Len(rpipe) >= 1 /\ Len(rpipe') = Len(rpipe) + 1

\* The pipeline the restart started.
Restarted == rpipe'[Len(rpipe')]

\* The restart keeps the broadcaster, its sinks and the mount's sessions,
\* and takes the source's new size and the mount's fps.
RestartKeepsMount ==
    Restarting =>
        /\ Restarted.Track = rpipe[rsup.stopper].Track /\ Restarted.Track = rm.bc
        /\ rsinks' = rsinks
        /\ rm'.sessions = rm.sessions
        /\ Restarted.Width = rsrc.w /\ Restarted.Height = rsrc.h
        /\ Restarted.FPS = rm.fps

\* C29: the pipeline a resolution restart starts writes to the same
\* broadcaster, leaves the sink set and the session set as they are, and
\* runs with the source's new size at the mount's own fps and bitrate.
C29_RestartKeepsVariant ==
    [][RestartKeepsMount
       /\ (Restarting => Restarted.BitrateKbps = rm.bitrateKbps)]_allvars

\* C29 without the bitrate.
C29_RestartKeepsBroadcaster == [][RestartKeepsMount]_allvars

\* C30: a mount that fixed its width and height has one pipeline for its
\* whole life, the one ensureMount started: it runs until the teardown and
\* no second one is ever started, whatever size the source reports.
C30_FixedSizeNeverRestarts ==
    (rm.made /\ rm.width > 0 /\ rm.height > 0) =>
        /\ Len(rpipe) <= 1 /\ nrestart = 0
        /\ rm.stop \in {0, 1}
        /\ (rm.bc # 0 /\ Len(rpipe) = 1) => (rpipe[1].running /\ rm.stop = 1)

\* A fixed-size mount with a session whose source delivers frames of
\* another size than the one the pipeline encodes.
C30_Witness ==
    /\ rm.made /\ rm.width > 0 /\ rm.height > 0 /\ rm.sessions # {}
    /\ Len(rpipe) = 1 /\ rpipe[1].running
    /\ rsrc.ok /\ rsrc.nw = 1920 /\ rsrc.nw # rpipe[1].encW

\* ----- pixel format dispatch -----

\* C31: on every tick that converts a frame, the conversion is the one of
\* the frame's pixel format: BGRAtoI420 for a BGRA frame, UYVYtoI420 for a
\* UYVY frame.
C31_ConversionMatchesFrame ==
    /\ vloop.conv = "BGRAtoI420" => vloop.frame.fmt = "bgra"
    /\ vloop.conv = "UYVYtoI420" => vloop.frame.fmt = "uyvy422"

\* C31, when the source's format is the one the loop read at its start: the
\* conversion matches the frame.
C31_MatchesWhileFormatStays ==
    (vloop.conv \in {"BGRAtoI420", "UYVYtoI420"} /\ vloop.frame.fmt = vloop.pixfmt)
    => C31_ConversionMatchesFrame

\* A supervisor tick that stopped the pipeline and could not start the next.
FailedRestart == nrestart' = nrestart + 1 /\ Len(rpipe') = Len(rpipe)

\* The supervisor's next tick will restart: it is waiting and the source
\* reports a size other than the current one.
RestartDue ==
    /\ rsup.pc = "wait" /\ rsrc.ok /\ rsrc.w > 0 /\ rsrc.h > 0
    /\ (rsrc.w # rsup.currentW \/ rsrc.h # rsup.currentH)

\* The supervisor stores the stop handle of the pipeline it started.
PublishStep == rsup.pc = "publish" /\ rsup'.pc = "wait"

\* C32: a resolution restart whose start fails leaves the previous pipeline
\* stopped, closes no session and removes no sink, and leaves the
\* supervisor due to restart again; every tick of a live supervisor that is
\* due restarts; and when a started pipeline is published the mount's stop
\* handle is that pipeline, which is the newest and is running.
C32_FailedRestartRetried ==
    [][/\ FailedRestart =>
            /\ ~rpipe'[rsup.stopper].running
            /\ \A i \in 1..Len(rpipe') : ~rpipe'[i].running
            /\ rsinks' = rsinks /\ rm' = rm
            /\ rsup'.stopper = rsup.stopper
            /\ RestartDue'
       /\ (rsup.alive /\ RestartDue /\ (rpipe' # rpipe \/ rsup' # rsup)
           /\ rsup'.alive /\ rsrc' = rsrc /\ rm' = rm)
            => nrestart' = nrestart + 1
       /\ PublishStep =>
            /\ rm'.stop = Len(rpipe') /\ rpipe'[rm'.stop].running
            /\ rsup'.currentW = rpipe'[rm'.stop].Width
            /\ rsup'.currentH = rpipe'[rm'.stop].Height]_allvars

\* A first restart failed and the retry succeeded and was published, with a
\* session on the mount throughout.
C32_Witness ==
    /\ nrestart = 2 /\ Len(rpipe) = 2
    /\ ~rpipe[1].running /\ rpipe[2].running
    /\ rm.stop = 2 /\ rsup.pc = "wait" /\ rm.sessions # {}

\* teardownMountIfIdle has finished for the mount: its broadcaster is
\* cleared.
TornDown == rm.made /\ rm.bc = 0

\* C34: once teardownMountIfIdle has finished for a mount, none of the
\* mount's pipelines is running, also when the supervisor was between the
\* start of a new pipeline and the store of its stop handle.
C34_NoPipelineAfterTeardown ==
    TornDown => \A i \in 1..Len(rpipe) : ~rpipe[i].running

\* C34, the part that holds: teardown ends the supervisor, stops the
\* pipeline behind the mount's stop handle and removes every sink, and
\* after it no pipeline is started.
C34_TeardownStopsPublished ==
    [][/\ (rm.bc # 0 /\ rm'.bc = 0) =>
            /\ ~rsup'.alive /\ rsinks' = {}
            /\ rm.stop # 0 => ~rpipe'[rm.stop].running
       /\ TornDown => Len(rpipe') = Len(rpipe)]_allvars

\* A supervisor tick that stops the pipeline and starts, or tries to start,
\* another.
RestartStep == nrestart' = nrestart + 1

\* C38: the supervisor restarts only when the size the source reports is
\* not the size the pipeline it stops was started with.
C38_RestartOnlyOnChange ==
    [][RestartStep =>
         <<rsrc.w, rsrc.h>> # <<rpipe[rsup.stopper].encW, rpipe[rsup.stopper].encH>>]_allvars

\* C38, the part that holds: the supervisor restarts only when the source
\* reports a size other than currentW, currentH, and from the first
\* published restart on these are the size of the pipeline it started.
C38_RestartOnlyOffCurrent ==
    [][/\ RestartStep => <<rsrc.w, rsrc.h>> # <<rsup.currentW, rsup.currentH>>
       /\ PublishStep =>
            <<rsup'.currentW, rsup'.currentH>> =
                <<rpipe'[rsup'.stopper].encW, rpipe'[rsup'.stopper].encH>>]_allvars

\* The shared pipelines that are running.
SharedRunning == {r \in ReqIds : sharePipe[r] = "running"}

\* No create request, close call or selection is under way.
SharedQuiescent ==
    /\ \A r \in ReqIds : req[r].pc \in {"idle", "done"}
    /\ sel.pc = "idle"
    /\ BagToSet(closers) = {}

\* C33: at most one shared pipeline runs, and when nothing is under way
\* one runs exactly when s.shareBC is set.
C33_OneSharedPipeline ==
    /\ Cardinality(SharedRunning) <= 1
    /\ SharedQuiescent => (shareBC # 0 <=> SharedRunning # {})

\* C33, the part that holds: a pipeline that runs while s.shareBC is set
\* and nothing is under way was started by a create request or by a
\* restart on a broadcaster that was s.shareBC at its start.
C33_OnlyStartsSetShared ==
    [][\A r \in ReqIds :
          (sharePipe[r] # "running" /\ sharePipe'[r] = "running") =>
              \/ req[r].kind = "legacy" /\ req[r].pc = "start" /\ shareBC' = r
              \/ sel.pc = "start" /\ sel.bc = r]_allvars

\* ensureMount has returned a mount, without error, to request r.
EnsureReturned(r) == req[r].kind = "ndi" /\ req[r].pc = "attach"

\* The call that registered mount m is still starting its pipeline.
Building(m) == \E q \in ReqIds : req[q].pc \in {"start", "publish"} /\ req[q].m = m

\* C35: the mount that ensureMount has just returned without error, and
\* that no other call is still building, has a running pipeline.
C35_ReturnedMountRuns ==
    [][\A r \in ReqIds :
          (~EnsureReturned(r) /\ EnsureReturned(r)' /\ ~Building(req'[r].m)) =>
              mount'[req'[r].m].pipe = "running"]_allvars

\* C35, the part that holds: the call that registered the mount and started
\* its pipeline returns it with the pipeline running.
C35_BuilderReturnsRunning ==
    [][\A r \in ReqIds :
          (req[r].kind = "ndi" /\ req[r].pc = "publish" /\ EnsureReturned(r)') =>
              mount'[req'[r].m].pipe = "running"]_allvars

\* Request r registers its session and is answered 201.
Registering(r) == req[r].pc = "sdp" /\ req'[r].pc = "done" /\ req'[r].status = 201

\* The sink of session r is in a broadcaster that has not been closed (a
\* closed one has no sinks), and for a session of POST /whep/ndi/{key} the
\* mount is the one the registry holds and counts r among its sessions.
AttachedLive(r) ==
    LET d == sessions[r].det
        ck == sessions[r].mountKey
    IN  /\ d # 0 /\ r \in sinks[d]
        /\ IF ck # NoKey
           THEN /\ mount[d].bc
                /\ ck \in DOMAIN mounts /\ mounts[ck] = d
                /\ r \in mount[d].sessions
           ELSE TRUE

\* C36: a session that is registered and answered 201 is at that moment
\* attached to a live pipeline.
C36_RegisteredIsAttached ==
    [][\A r \in ReqIds : Registering(r) => AttachedLive(r)']_allvars

\* C36, the part that holds: a session registered with a detach handle is
\* in the sink set of the broadcaster it was added to unless that
\* broadcaster was closed in between.
C36_RegisteredSinkKept ==
    [][\A r \in ReqIds :
          (Registering(r) /\ req[r].det # 0) =>
              \/ r \in sinks'[req[r].det]
              \/ sinks'[req[r].det] = {}]_allvars

\* closeSession ends for an id that is not in the session table.
ClosingUnknown ==
    \E c \in BagToSet(closers) :
        /\ c.id = UnknownId /\ c.pc = "lookup"
        /\ closers' = BagRem(closers, c)

\* What a resource request on an unknown id is to leave alone.
ResourceFrame == <<sessions, mounts, mount, shareBC, sharePipe, sinks>>

\* C37: closeSession on an id that is not a registered session leaves the
\* session table, every mount, the shared pipeline and every sink set as
\* they are; so does the DELETE that calls it.
C37_UnknownIdChangesNothing ==
    [][(ClosingUnknown \/ ndelete' # ndelete) => ResourceFrame' = ResourceFrame]_allvars

\* C37, the part that holds: such a call changes neither the session table
\* nor any mount, and leaves the shared pipeline alone while a session is
\* registered.
C37_UnknownIdKeepsSessions ==
    [][(ClosingUnknown \/ ndelete' # ndelete) =>
          /\ <<sessions, mounts, mount>>' = <<sessions, mounts, mount>>
          /\ DOMAIN sessions # {} =>
                <<shareBC, sharePipe, sinks>>' = <<shareBC, sharePipe, sinks>>]_allvars

\* The workers that have not returned.
BgRunning == {w \in 1..Len(bg.workers) : bg.workers[w].pc # "exited"}

\* Worker w is on its way out: it waits on a channel that is closed, or it
\* is in a poll or between poll and select and the channel it waited on
\* last is closed.
BgLeaving(w) ==
    /\ bg.workers[w].ch # 0
    /\ bg.closes[bg.workers[w].ch] > 0
    /\ bg.workers[w].pc \in {"select", "poll"}

\* C39: at most one worker that has not returned is not on its way out, and
\* a worker that waits in its select waits on the channel made at its own
\* start.
C39_OneWorker ==
    /\ Cardinality({w \in BgRunning : bg.workers[w].pc = "select" /\ ~BgLeaving(w)}) <= 1
    /\ \A w \in BgRunning : bg.workers[w].pc = "select" => bg.workers[w].ch = w

\* C39, the part that holds: no channel is closed twice, a Start while
\* started starts no worker, a Stop while not started closes nothing, and
\* while nothing was stopped one worker runs.
C39_StartStopOnce ==
    /\ \A c \in 1..Len(bg.closes) : bg.closes[c] <= 1
    /\ Len(bg.workers) = Len(bg.closes)
    /\ bg.started => (bg.quit = Len(bg.closes) /\ bg.closes[bg.quit] = 0)
    /\ (\A c \in 1..Len(bg.closes) : bg.closes[c] = 0) => Cardinality(BgRunning) <= 1

\* Thread t waits in Lock for a mutex that another thread holds.
Blocked(t) == AtLock(t) /\ holder[NextOp(t).mu] # ""

\* Thread t is inside a call: it has done some of its lock operations.
InCall(t) == lockpc[t] > 0

\* C40: every thread that waits for a mutex gets past the Lock, every call
\* that has begun returns, and in every state some thread can take a step.
C40_NoDeadlock ==
    /\ \A t \in Threads : Blocked(t) ~> ~Blocked(t)
    /\ \A t \in Threads : InCall(t) ~> ~InCall(t)
    /\ [](\E t \in Threads : ENABLED LockStep(t))

\* The handler holds s.mu and waits for m.mu, which the teardown holds
\* together with b.mu, while closeSession and the selection handler wait
\* for s.mu and the supervisor for m.mu.
C40_Witness ==
    /\ holder["s.mu"] = "handleWHEPNDI" /\ Blocked("handleWHEPNDI")
    /\ holder["m.mu"] = "teardownMountIfIdle" /\ holder["b.mu"] = "teardownMountIfIdle"
    /\ Blocked("closeSession") /\ Blocked("handleNDISelect")
    /\ Blocked("supervisor")

====
